---- MODULE Spec2Model ----
(***************************************************************************)
(* PG manager of the HomeStore backend of HomeObject                       *)
(* (src/lib/homestore_backend/hs_pg_manager.cpp, hs_homeobject.hpp).       *)
(*                                                                         *)
(* Every replica runs one HSHomeObject: a PG map, the uuid -> index table  *)
(* map, a chunk selector and the superblocks it has persisted.  create_pg  *)
(* runs on a proposer, creates a replication group and proposes one        *)
(* CREATE_PG entry; the entry is committed on every replica by             *)
(* on_create_pg_message_commit.                                            *)
(***************************************************************************)
EXTENDS Integers, Sequences, FiniteSets, TLC

(* ------------------------------ bounds -------------------------------- *)

\* create_pg calls that get as far as create_repl_dev
MaxReqs == 2
\* log replays: commits of an entry on a replica that committed it before
MaxReplays == 1
\* chunks on the large device of a replica (its second device holds one chunk)
ChunksPerDev == 2
\* restarts of a replica
MaxCrashes == 1
\* handlers one thread runs, one after the other
MaxLockOps == 2

Replicas == {"r1", "r2"}
\* the replicas that apply committed entries under Spec: r2 proposes, and lags
\* behind in applying its log
Appliers == {"r1"}
PgIds == {1, 2}
\* chunk sizes a replica may be formatted with
ChunkSizes == {2, 3}
\* pg_info.size values passed to create_pg
PgSizes == {0, 5, 6}
Devs == {1, 2}

(* --------------------------- program constants ------------------------ *)

max_name_len == 32

PGErrors == {"INVALID_ARG", "UNKNOWN_PG", "UNKNOWN_PEER", "NOT_LEADER", "TIMEOUT",
             "NO_SPACE_LEFT", "DRIVE_WRITE_ERROR", "RETRY_REQUEST", "CRC_MISMATCH",
             "UNKNOWN"}

ReplServiceErrors == {"BAD_REQUEST", "CANCELLED", "CONFIG_CHANGING", "SERVER_ALREADY_EXISTS",
                      "SERVER_IS_JOINING", "SERVER_IS_LEAVING", "RESULT_NOT_EXIST_YET",
                      "TERM_MISMATCH", "NOT_IMPLEMENTED", "NOT_LEADER",
                      "CANNOT_REMOVE_LEADER", "TIMEOUT", "SERVER_NOT_FOUND",
                      "NO_SPACE_LEFT", "DRIVE_WRITE_ERROR", "RETRY_REQUEST", "OK", "FAILED"}

\* folly::Unit(): the success value of a NullResult
Unit == "OK"

NoChunks == <<-1>>

(* ------------------------------ helpers ------------------------------- *)

Min(a, b) == IF a < b THEN a ELSE b

Range(s) == {s[i] : i \in DOMAIN s}

\* the elements of a std::set< PGMember > in iteration order (ordered by id)
SetOrder(S) ==
    CHOOSE s \in [1..Cardinality(S) -> S] :
        /\ Range(s) = S
        /\ \A i, j \in 1..Cardinality(S) : i < j => s[i].id < s[j].id

RECURSIVE SumSeq(_)
SumSeq(s) == IF s = <<>> THEN 0 ELSE s[1] + SumSeq(Tail(s))

(* ------------------------- toPgError (pure) --------------------------- *)

\* a table whose CANNOT_REMOVE_LEADER case falls through to the next one
toPgError_fallthrough(e) ==
    CASE e \in {"BAD_REQUEST", "CANCELLED", "CONFIG_CHANGING", "SERVER_ALREADY_EXISTS",
                "SERVER_IS_JOINING", "SERVER_IS_LEAVING", "RESULT_NOT_EXIST_YET",
                "TERM_MISMATCH", "NOT_IMPLEMENTED"} -> "INVALID_ARG"
      [] e = "NOT_LEADER" -> "NOT_LEADER"
      [] e \in {"CANNOT_REMOVE_LEADER", "TIMEOUT"} -> "TIMEOUT"
      [] e = "SERVER_NOT_FOUND" -> "UNKNOWN_PG"
      [] e = "NO_SPACE_LEFT" -> "NO_SPACE_LEFT"
      [] e = "DRIVE_WRITE_ERROR" -> "DRIVE_WRITE_ERROR"
      [] e = "RETRY_REQUEST" -> "RETRY_REQUEST"
      [] OTHER -> "UNKNOWN"

\* hs_pg_manager.cpp:9-53.  OK trips a DEBUG_ASSERT and falls through to UNKNOWN.
toPgError(e) ==
    CASE e \in {"BAD_REQUEST", "CANCELLED", "CONFIG_CHANGING", "SERVER_ALREADY_EXISTS",
                "SERVER_IS_JOINING", "SERVER_IS_LEAVING", "RESULT_NOT_EXIST_YET",
                "TERM_MISMATCH", "NOT_IMPLEMENTED"} -> "INVALID_ARG"
      [] e = "NOT_LEADER" -> "NOT_LEADER"
      [] e = "CANNOT_REMOVE_LEADER" -> "UNKNOWN_PEER"
      [] e = "TIMEOUT" -> "TIMEOUT"
      [] e = "SERVER_NOT_FOUND" -> "UNKNOWN_PG"
      [] e = "NO_SPACE_LEFT" -> "NO_SPACE_LEFT"
      [] e = "DRIVE_WRITE_ERROR" -> "DRIVE_WRITE_ERROR"
      [] e = "RETRY_REQUEST" -> "RETRY_REQUEST"
      [] e \in {"OK", "FAILED"} -> "UNKNOWN"
      [] OTHER -> "UNKNOWN"

(* --------------------- CREATE_PG message encoding --------------------- *)

\* boost::uuids::to_string / string_generator: a uuid and its text form
uuid_to_string(u) == <<"uuid", u>>
string_generator(s) == s[2]

\* serialize_pg_info: the JSON text, as the list of its values in key order;
\* the members array follows the iteration order of the member set
serialize_pg_info(pginfo) ==
    [pg_id_t |-> pginfo.id,
     pg_size |-> pginfo.size,
     chunk_size |-> pginfo.chunk_size,
     repl_uuid |-> uuid_to_string(pginfo.replica_set_uuid),
     members |-> [i \in 1..Cardinality(pginfo.members) |->
                     LET m == SetOrder(pginfo.members)[i]
                     IN  [member_id |-> uuid_to_string(m.id), name |-> m.name,
                          priority |-> m.priority]]]

\* deserialize_pg_info
deserialize_pg_info(j) ==
    [id |-> j.pg_id_t,
     size |-> j.pg_size,
     chunk_size |-> j.chunk_size,
     replica_set_uuid |-> string_generator(j.repl_uuid),
     members |-> {[id |-> string_generator(j.members[i].member_id),
                   name |-> j.members[i].name,
                   priority |-> j.members[i].priority] : i \in DOMAIN j.members}]

\* crc32_ieee over the serialized payload: a checksum of its values (kept to
\* 16 bits, the widest modulus the checker's integers allow headroom for)
crc32_ieee(j) ==
    (j.pg_id_t * 7 + j.pg_size * 13 + j.chunk_size * 17 + j.repl_uuid[2] * 19
       + SumSeq([i \in DOMAIN j.members |->
                    j.members[i].member_id[2] * 23 + j.members[i].priority * 29
                      + Len(j.members[i].name)])) % (2 ^ 16)

\* ReplicationMessageHeader::seal(): the hash over the fields that precede it
header_crc(h) == (h.payload_size * 3 + h.payload_crc * 5 + 1) % (2 ^ 16)

seal(h) == [h EXCEPT !.seal = header_crc(h)]

\* ReplicationMessageHeader::corrupted()
corrupted(h) == h.seal # header_crc(h)

\* the header buffer do_create_pg hands to async_alloc_write: message header
\* followed by the serialized pg_info (header_extn)
make_create_pg_req(pg_info) ==
    LET ser == serialize_pg_info(pg_info)
        hdr == seal([msg_type |-> "CREATE_PG_MSG",
                     payload_size |-> 4 + Len(ser.members),
                     payload_crc |-> crc32_ieee(ser),
                     seal |-> 0])
    IN  [header |-> hdr, extn |-> ser]

\* what a replica reads back from its log for an entry: the entry as written,
\* or with its header or its payload damaged
Faults == {"none", "header", "payload"}

read_entry(buf, fault) ==
    CASE fault = "header" ->
            [buf EXCEPT !.header.payload_crc = (@ + 1) % (2 ^ 16)]
      [] fault = "payload" ->
            [buf EXCEPT !.extn.pg_size = @ + 1]
      [] OTHER -> buf

(* ------------------------------ inputs -------------------------------- *)

\* member names, as the bytes of the std::string
NameA == <<97>>
NameB == <<98, 98>>
NameLong == [i \in 1..max_name_len |-> 99]

PGMember(id, name, priority) == [id |-> id, name |-> name, priority |-> priority]

\* peer ids: r1 is peer 1, r2 is peer 2, peer 3 is a replica outside the model
PeerOf(r) == IF r = "r1" THEN 1 ELSE 2

\* a member that joins a group later
NameD == <<100>>
member_D == PGMember(4, NameD, 3)

\* the members known to the cluster
Members == {PGMember(1, NameA, 0), PGMember(2, NameB, 1), PGMember(3, NameLong, 2), member_D}

\* results the replication service gives a replace_member request
ReplaceResults == {"OK", "TIMEOUT", "RETRY_REQUEST", "CONFIG_CHANGING", "NOT_LEADER",
                   "SERVER_NOT_FOUND", "CANNOT_REMOVE_LEADER"}

\* the member sets create_pg is called with
MemberSets == {{PGMember(1, NameA, 0), PGMember(2, NameB, 1), PGMember(3, NameLong, 2)}}

\* a PG size of one chunk on a replica of chunk size 2
SmallPgSizes == {3}

\* bytes a freshly allocated superblock buffer may hold outside the fixed part
UninitBytes == {0, 120}

\* values the chunk_size of a PGInfo may hold when nothing assigned it
UninitChunkSizes == {0, 2}

\* the threads that run handlers of one replica at the same time
Threads == {"t1", "t2"}

\* a thread that runs no handler
Idle == [op |-> "idle", at |-> 0, n |-> 0]

(* ------------------------------- state -------------------------------- *)

VARIABLES
    chunk_size,          \* [r] chunk size of the replica's chunk selector
    pg_chunks,           \* [r] chunk selector: pg_id -> list of its physical chunks
    pg_map,              \* [r] _pg_map: pg_id -> HS_PG
    index_table_pg_map,  \* [r] index_table_pg_map_: index uuid -> PgIndexTable
    index_service,       \* [r] index tables held by the index service
    meta_blks,           \* [r] PG superblocks persisted by the meta service
    alive,               \* [r] FALSE once a RELEASE_ASSERT aborted the process
    repl_devs,           \* replication groups created by the replication service
    reqs,                \* create_pg requests that reached create_repl_dev
    committed,           \* [r] requests whose entry was committed on r
    replays,             \* log replays done so far
    phase,               \* [r] "up", or the step of recovery the replica is in
    scanned,             \* [r] index table uuids of the PG superblocks scanned so far
    crashes,             \* restarts so far
    crash_image,         \* [r] the PGs and chunk lists r held when it last stopped
    lock_pc,             \* [t] the operation thread t runs and how far it is in its lock path
    inflight,            \* [r] commits that passed the existence check and go on to create
    replacing,           \* [r] on_pg_replace_member calls between erase and emplace
    last                 \* the last operation, its inputs and what it returned

vars == <<chunk_size, pg_chunks, pg_map, index_table_pg_map, index_service, meta_blks,
          alive, repl_devs, reqs, committed, replays, phase, scanned, crashes, crash_image,
          lock_pc, inflight, replacing, last>>

\* where each replica is in its start-up
\* the threads inside a handler
thread_state == <<lock_pc, inflight, replacing>>

recovery_state == <<phase, scanned, crashes, crash_image, thread_state>>

\* the per-replica state of HSHomeObject and of the services below it
replica_state == <<pg_chunks, pg_map, index_table_pg_map, index_service, meta_blks>>

(* --------------------------- chunk selector --------------------------- *)

\* device 1 holds the chunks 1..ChunksPerDev, device 2 the one chunk after them
DevChunks(d) == IF d = 1 THEN 1..ChunksPerDev ELSE {ChunksPerDev + 1}

ReservedChunks(r) == UNION {Range(pg_chunks[r][p]) : p \in DOMAIN pg_chunks[r]}

FreeChunks(r, d) == DevChunks(d) \ ReservedChunks(r)

Max(S) == CHOOSE x \in S : \A y \in S : y <= x

\* most_avail_num_chunks(): the most free chunks on any single device
most_avail_num_chunks(r) == Max({Cardinality(FreeChunks(r, d)) : d \in Devs})

get_chunk_size(r) == chunk_size[r]

\* the lists of n distinct chunks drawn from the set S
ChunkLists(S, n) ==
    {l \in [1..n -> S] : \A i, j \in 1..n : i # j => l[i] # l[j]}

\* select_chunks_for_pg(pg_id, size): the chunk lists the selector may reserve,
\* floor(size / chunk_size) free chunks of one device; none when no device has that many
select_chunks_for_pg(r, size) ==
    UNION {ChunkLists(FreeChunks(r, d), size \div get_chunk_size(r)) : d \in Devs}

(* ----------------------------- superblock ----------------------------- *)

\* std::strncpy(dst, src.c_str(), n): n bytes of src, NUL padded past its end;
\* the rest of dst keeps what it held
strncpy(dst, src, n) ==
    [i \in DOMAIN dst |-> IF i <= n THEN (IF i <= Len(src) THEN src[i] ELSE 0) ELSE dst[i]]

\* superblk::create(size): the fixed part is value-initialized, the trailing
\* member and chunk arrays hold whatever the allocation held
sb_create(num_members, num_chunks, fill) ==
    [id |-> 0, num_members |-> 0, num_chunks |-> 0, replica_set_uuid |-> 0, pg_size |-> 0,
     index_table_uuid |-> 0, blob_sequence_num |-> 0, active_blob_count |-> 0,
     tombstone_blob_count |-> 0, total_occupied_blk_count |-> 0,
     pg_members |-> [i \in 1..num_members |->
                        [id |-> fill, name |-> [k \in 1..max_name_len |-> fill],
                         priority |-> fill]],
     chunk_ids |-> [i \in 1..num_chunks |-> fill]]

\* a member loop that leaves out the priority assignment
write_sb_members_no_priority(sb_members, members) ==
    [i \in DOMAIN sb_members |->
        IF i <= Cardinality(members)
        THEN LET m == SetOrder(members)[i]
             IN  [id |-> m.id,
                  name |-> strncpy(sb_members[i].name, m.name, Min(Len(m.name), max_name_len)),
                  priority |-> sb_members[i].priority]
        ELSE sb_members[i]]

\* the member loop of the HS_PG constructor and of on_pg_replace_member
write_sb_members(sb_members, members) ==
    [i \in DOMAIN sb_members |->
        IF i <= Cardinality(members)
        THEN LET m == SetOrder(members)[i]
             IN  [id |-> m.id,
                  name |-> strncpy(sb_members[i].name, m.name, Min(Len(m.name), max_name_len)),
                  priority |-> m.priority]
        ELSE sb_members[i]]

\* a chunk loop that stops one entry short (i < num_chunks - 1)
write_sb_chunk_ids_short(sb_chunk_ids, pg_chunk_ids) ==
    [i \in DOMAIN sb_chunk_ids |->
        IF i < Len(pg_chunk_ids) THEN pg_chunk_ids[i] ELSE sb_chunk_ids[i]]

\* a chunk loop that stores the virtual index in place of the physical chunk id
write_sb_chunk_ids_index(sb_chunk_ids, pg_chunk_ids) ==
    [i \in DOMAIN sb_chunk_ids |-> i]

\* the chunk loop of the HS_PG constructor: pg_sb_chunk_ids[i] = pg_chunk_ids->at(i)
write_sb_chunk_ids(sb_chunk_ids, pg_chunk_ids) ==
    [i \in DOMAIN sb_chunk_ids |-> pg_chunk_ids[i]]

\* std::string(sb_members[i].name): the bytes up to the first NUL; the name field
\* is followed, in the packed struct, by the little-endian priority
read_sb_name(slot) ==
    LET nul == {k \in 1..max_name_len : slot.name[k] = 0}
    IN  IF nul # {}
        THEN SubSeq(slot.name, 1, (CHOOSE k \in nul : \A j \in nul : k <= j) - 1)
        ELSE slot.name \o (IF slot.priority % 256 # 0 THEN <<slot.priority % 256>> ELSE <<>>)

\* the member loop of pg_info_from_sb: the members a superblock is read back as
read_sb_members(sb) ==
    {[id |-> sb.pg_members[k].id, name |-> read_sb_name(sb.pg_members[k]),
      priority |-> sb.pg_members[k].priority] : k \in 1..sb.num_members}

\* PG::durable_entities_ of a new PG
DurableEntities0 ==
    [blob_sequence_num |-> 0, active_blob_count |-> 0, tombstone_blob_count |-> 0,
     total_occupied_blk_count |-> 0]

\* HS_PG::HS_PG(info, rdev, index_table, pg_chunk_ids): the PG and the superblock it writes
HS_PG(info, rdev, index_table, pg_chunk_ids, fill) ==
    LET sb0 == sb_create(Cardinality(info.members), Len(pg_chunk_ids), fill)
        sb == [sb0 EXCEPT
                 !.id = info.id,
                 !.num_members = Cardinality(info.members),
                 !.num_chunks = Len(pg_chunk_ids),
                 !.pg_size = info.size,
                 !.replica_set_uuid = rdev,
                 !.index_table_uuid = index_table,
                 !.active_blob_count = 0,
                 !.tombstone_blob_count = 0,
                 !.total_occupied_blk_count = 0,
                 !.pg_members = write_sb_members(@, info.members),
                 !.chunk_ids = write_sb_chunk_ids(@, pg_chunk_ids)]
    IN  [pg_info |-> info, repl_dev |-> rdev, index_table |-> index_table, pg_sb |-> sb,
         durable_entities |-> DurableEntities0]

\* superblk::write(): the meta service keeps one block per superblock object
sb_write(blks, sb) ==
    {b \in blks : b.index_table_uuid # sb.index_table_uuid} \cup {sb}

(* --------------------------- initial state ---------------------------- *)

NoOp == [op |-> "none", r |-> "r1", pg_id |-> 0, size |-> 0, req |-> 0, fault |-> "none",
         ctx |-> FALSE, ret |-> "none", aux |-> <<>>]

Init ==
    \* r1 is formatted with chunk size 2, its peer with either size
    /\ chunk_size \in {f \in [Replicas -> ChunkSizes] : f["r1"] = 2}
    /\ pg_chunks = [r \in Replicas |-> <<>>]
    /\ pg_map = [r \in Replicas |-> <<>>]
    /\ index_table_pg_map = [r \in Replicas |-> <<>>]
    /\ index_service = [r \in Replicas |-> {}]
    /\ meta_blks = [r \in Replicas |-> {}]
    /\ alive = [r \in Replicas |-> TRUE]
    /\ repl_devs = {}
    /\ reqs = <<>>
    /\ committed = [r \in Replicas |-> {}]
    /\ replays = 0
    /\ phase = [r \in Replicas |-> "up"]
    /\ scanned = [r \in Replicas |-> {}]
    /\ crashes = 0
    /\ crash_image = [r \in Replicas |-> [pgs |-> <<>>, chunks |-> <<>>]]
    /\ lock_pc = [t \in Threads |-> Idle]
    /\ inflight = [r \in Replicas |-> {}]
    /\ replacing = [r \in Replicas |-> {}]
    /\ last = NoOp

(* ------------------------------ create_pg ----------------------------- *)

\* a lookup that never finds the PG
pg_exists_never(r, pg_id) == FALSE

\* _pg_map.end() != _pg_map.find(pg_id), under the shared _pg_lock
pg_exists(r, pg_id) == pg_id \in DOMAIN pg_map[r]

\* the chunk count rounded up instead of down
needed_num_chunks_round_up(size, csize) == (size + csize - 1) \div csize

\* sisl::round_down(size, chunk_size) / chunk_size
needed_num_chunks(size, csize) == (size - (size % csize)) \div csize

\* boost::uuids::random_generator()(): a uuid no group has been given yet
random_generator == 100 + Len(reqs) + 1

\* _create_pg without its capacity check
create_pg_checks_no_capacity(r, pg_id, size) ==
    IF pg_exists(r, pg_id) THEN Unit
    ELSE IF size = 0 THEN "INVALID_ARG"
    ELSE "pending"

\* _create_pg with the argument checks ahead of the lookup in the PG map
create_pg_checks_args_first(r, pg_id, size) ==
    IF size = 0 THEN "INVALID_ARG"
    ELSE IF needed_num_chunks(size, get_chunk_size(r)) > most_avail_num_chunks(r)
         THEN "NO_SPACE_LEFT"
    ELSE IF pg_exists(r, pg_id) THEN Unit
    ELSE "pending"

\* the checks of _create_pg: what it returns at once, "pending" when it goes on
\* to create the replication group
create_pg_checks(r, pg_id, size) ==
    IF pg_exists(r, pg_id) THEN Unit
    ELSE IF size = 0 THEN "INVALID_ARG"
    ELSE IF needed_num_chunks(size, get_chunk_size(r)) > most_avail_num_chunks(r)
         THEN "NO_SPACE_LEFT"
    ELSE "pending"

\* _create_pg up to the point where it awaits create_repl_dev
create_pg(r, pg_id, size, members) ==
    LET ret == create_pg_checks(r, pg_id, size)
        pg_info == [id |-> pg_id, size |-> size, chunk_size |-> get_chunk_size(r),
                    replica_set_uuid |-> random_generator, members |-> members]
    IN  /\ alive[r] /\ phase[r] = "up"
        /\ IF ret = "pending"
           THEN /\ Len(reqs) < MaxReqs
                /\ reqs' = Append(reqs, [proposer |-> r, pg_info |-> pg_info,
                                         peers |-> {m.id : m \in members},
                                         st |-> "create_repl_dev", group |-> 0,
                                         entry |-> <<>>,
                                         promise |-> "unset", nset |-> 0])
           ELSE UNCHANGED reqs
        /\ last' = [NoOp EXCEPT !.op = "create_pg", !.r = r, !.pg_id = pg_id, !.size = size,
                                !.req = IF ret = "pending" THEN Len(reqs) + 1 ELSE 0,
                                !.ret = ret]
        /\ UNCHANGED <<chunk_size, replica_state, alive, repl_devs, committed, replays,
                       recovery_state>>

\* a request whose create_pg call is over without a proposal: its context is gone
FailedReq == [proposer |-> "r1", pg_info |-> <<>>, peers |-> {}, st |-> "failed", group |-> 0,
              entry |-> <<>>, promise |-> "unset", nset |-> 0]

\* the replication service fails create_repl_dev: the continuation maps the error
create_repl_dev_failed(i, e) ==
    /\ reqs[i].st = "create_repl_dev"
    /\ alive[reqs[i].proposer] /\ phase[reqs[i].proposer] = "up"
    /\ reqs' = [reqs EXCEPT ![i] = FailedReq]
    /\ last' = [NoOp EXCEPT !.op = "create_repl_dev", !.r = reqs[i].proposer,
                            !.pg_id = reqs[i].pg_info.id, !.req = i, !.fault = e,
                            !.ret = toPgError(e)]
    /\ UNCHANGED <<chunk_size, replica_state, alive, repl_devs, committed, replays,
                   recovery_state>>

\* create_repl_dev succeeds: the continuation runs do_create_pg, which proposes
\* the CREATE_PG entry on the new group
do_create_pg(i) ==
    /\ reqs[i].st = "create_repl_dev"
    /\ alive[reqs[i].proposer] /\ phase[reqs[i].proposer] = "up"
    /\ repl_devs' = repl_devs \cup {[group_id |-> reqs[i].pg_info.replica_set_uuid,
                                     peers |-> reqs[i].peers]}
    /\ reqs' = [reqs EXCEPT ![i].st = "proposed",
                            ![i].group = reqs[i].pg_info.replica_set_uuid,
                            ![i].entry = make_create_pg_req(reqs[i].pg_info)]
    /\ last' = [NoOp EXCEPT !.op = "do_create_pg", !.r = reqs[i].proposer,
                            !.pg_id = reqs[i].pg_info.id, !.req = i, !.ret = "pending"]
    /\ UNCHANGED <<chunk_size, replica_state, alive, committed, replays, recovery_state>>

(* -------------------- on_create_pg_message_commit --------------------- *)

\* a handler that signals its result on every replica
is_proposer_everywhere(r, i) == TRUE

\* hs_ctx && hs_ctx->is_proposer(): the request context lives on the proposer
\* until the entry's first commit there
is_proposer(r, i) == r = reqs[i].proposer /\ i \notin committed[r]

\* crc32_ieee(init_crc32, payload) != msg_header->payload_crc
payload_crc_mismatch(buf) == crc32_ieee(buf.extn) # buf.header.payload_crc

\* a handler that does not compare the chunk sizes
chunk_size_unchecked(r, pg_info) == FALSE

\* a check that only rejects a chunk size larger than the local one
chunk_size_mismatch_only_larger(r, pg_info) == pg_info.chunk_size > get_chunk_size(r)

\* pg_info.chunk_size != local_chunk_size
chunk_size_mismatch(r, pg_info) == pg_info.chunk_size # get_chunk_size(r)

\* chunk_selector()->get_pg_chunks(pg_id): nullptr (NoChunks) for an unknown pg
get_pg_chunks(sel, pg_id) == IF pg_id \in DOMAIN sel THEN sel[pg_id] ELSE NoChunks

\* create_index_table(): a new table under a uuid of its own
create_index_table(r) == PeerOf(r) * 10 + Cardinality(index_service[r]) + 1

\* _pg_map.try_emplace(id, hs_pg): inserts unless the key is present
try_emplace(map, id, hs_pg) == IF id \in DOMAIN map THEN map ELSE map @@ (id :> hs_pg)

\* index_table_pg_map_[uuid_str] = PgIndexTable{pg_id, index_table}
index_map_put(map, uuid_str, pg_id, index_table) ==
    [k \in DOMAIN map \cup {uuid_str} |->
        IF k = uuid_str THEN [pg_id |-> pg_id, index_table |-> index_table] ELSE map[k]]

\* a handler that reports success to the proposer whatever it found
set_promise_success(i, ctx, v) ==
    IF ctx THEN [reqs EXCEPT ![i].promise = Unit, ![i].nset = @ + 1] ELSE reqs

\* a handler that leaves the promise alone on its error returns
set_promise_on_success_only(i, ctx, v) ==
    IF ctx /\ v = Unit THEN [reqs EXCEPT ![i].promise = v, ![i].nset = @ + 1] ELSE reqs

\* ctx->promise_.setValue(v) when this replica is the proposer
set_promise(i, ctx, v) ==
    IF ctx THEN [reqs EXCEPT ![i].promise = v, ![i].nset = @ + 1] ELSE reqs

\* early returns that report a failed chunk selection as UNKNOWN
commit_early_return_unknown(r, buf) ==
    IF corrupted(buf.header) THEN "CRC_MISMATCH"
    ELSE IF payload_crc_mismatch(buf) THEN "CRC_MISMATCH"
    ELSE LET pg_info == deserialize_pg_info(buf.extn)
         IN  IF pg_exists(r, pg_info.id) THEN Unit
             ELSE IF chunk_size_mismatch(r, pg_info) THEN "UNKNOWN"
             ELSE IF select_chunks_for_pg(r, pg_info.size) = {} THEN "UNKNOWN"
             ELSE "none"

\* the early returns of the handler: the error it signals, Unit for a PG that
\* already exists, "none" when the handler goes on to create the PG
commit_early_return(r, buf) ==
    IF corrupted(buf.header) THEN "CRC_MISMATCH"
    ELSE IF payload_crc_mismatch(buf) THEN "CRC_MISMATCH"
    ELSE LET pg_info == deserialize_pg_info(buf.extn)
         IN  IF pg_exists(r, pg_info.id) THEN Unit
             ELSE IF chunk_size_mismatch(r, pg_info) THEN "UNKNOWN"
             ELSE IF select_chunks_for_pg(r, pg_info.size) = {} THEN "NO_SPACE_LEFT"
             ELSE "none"

\* a handler that asserts on a CRC mismatch
crc_mismatch_is_fatal(err) == err = "CRC_MISMATCH"

\* the handler logs a rejected entry (LOGE, LOGW) and returns: no rejection
\* is an assertion
commit_error_is_fatal(err) == FALSE

\* the early returns that follow the existence check, once the shared _pg_lock
\* has been released
commit_early_return_unlocked(r, buf) ==
    LET pg_info == deserialize_pg_info(buf.extn)
    IN  IF chunk_size_mismatch(r, pg_info) THEN "UNKNOWN"
        ELSE IF select_chunks_for_pg(r, pg_info.size) = {} THEN "NO_SPACE_LEFT"
        ELSE "none"

\* the handler on replica r for request i, given the outcome of its early returns
create_pg_message_commit(r, i, fault, early) ==
    LET buf == read_entry(reqs[i].entry, fault)
        ctx == is_proposer(r, i)
        pg_info == deserialize_pg_info(buf.extn)
        pg_id == pg_info.id
        repl_dev == reqs[i].group
        lastc == [NoOp EXCEPT !.op = "commit", !.r = r, !.req = i, !.fault = fault,
                              !.ctx = ctx, !.pg_id = reqs[i].pg_info.id,
                              !.size = reqs[i].pg_info.size]
    IN  /\ reqs[i].st = "proposed"
        /\ alive[r] /\ phase[r] = "up"
        /\ PeerOf(r) \in reqs[i].peers
        /\ i \in committed[r] => replays < MaxReplays
        /\ replays' = IF i \in committed[r] THEN replays + 1 ELSE replays
        /\ committed' = [committed EXCEPT ![r] = @ \cup {i}]
        /\ inflight' = [inflight EXCEPT ![r] = @ \ {i}]
        /\ UNCHANGED <<chunk_size, repl_devs, phase, scanned, crashes, crash_image,
                       lock_pc, replacing>>
        /\ IF early # "none"
           THEN /\ reqs' = set_promise(i, ctx, early)
                /\ last' = [lastc EXCEPT !.ret = early]
                /\ alive' = [alive EXCEPT ![r] = ~commit_error_is_fatal(early)]
                /\ UNCHANGED replica_state
           ELSE \E chunk_ids \in select_chunks_for_pg(r, pg_info.size), fill \in UninitBytes :
                  LET sel == pg_id :> chunk_ids @@ pg_chunks[r]
                      got == get_pg_chunks(sel, pg_id)
                      index_table == create_index_table(r)
                      uuid_str == uuid_to_string(index_table)
                      hs_pg == HS_PG(pg_info, repl_dev, index_table, got, fill)
                  IN  /\ pg_chunks' = [pg_chunks EXCEPT ![r] = sel]
                      /\ IF got = NoChunks
                         THEN /\ reqs' = set_promise(i, ctx, "NO_SPACE_LEFT")
                              /\ last' = [lastc EXCEPT !.ret = "NO_SPACE_LEFT"]
                              /\ UNCHANGED <<pg_map, index_table_pg_map, index_service,
                                             meta_blks, alive>>
                         ELSE /\ meta_blks' = [meta_blks EXCEPT ![r] = sb_write(@, hs_pg.pg_sb)]
                              /\ IF \/ uuid_str \in DOMAIN index_table_pg_map[r]
                                    \/ hs_pg.pg_info.replica_set_uuid # repl_dev
                                 THEN \* RELEASE_ASSERT: duplicate index table, or
                                      \* replica set uuid mismatch in add_pg_to_map
                                      /\ alive' = [alive EXCEPT ![r] = FALSE]
                                      /\ last' = [lastc EXCEPT !.ret =
                                            IF uuid_str \in DOMAIN index_table_pg_map[r]
                                            THEN "abort" ELSE "abort_add_pg_to_map"]
                                      /\ UNCHANGED <<pg_map, index_table_pg_map,
                                                     index_service, reqs>>
                                 ELSE /\ index_table_pg_map' =
                                           [index_table_pg_map EXCEPT ![r] =
                                               index_map_put(@, uuid_str, pg_id, index_table)]
                                      /\ index_service' =
                                           [index_service EXCEPT ![r] = @ \cup {index_table}]
                                      /\ pg_map' = [pg_map EXCEPT ![r] =
                                                       try_emplace(@, pg_id, hs_pg)]
                                      /\ reqs' = set_promise(i, ctx, Unit)
                                      /\ last' = [lastc EXCEPT !.ret = Unit]
                                      /\ UNCHANGED alive

\* on_create_pg_message_commit(lsn, header, repl_dev, hs_ctx) on replica r for the
\* entry of request i, run without another handler in between
on_create_pg_message_commit(r, i, fault) ==
    create_pg_message_commit(r, i, fault, commit_early_return(r, read_entry(reqs[i].entry, fault)))

\* the handler up to the release of the shared _pg_lock: the entry is sound and the
\* PG is not in the map
commit_check(r, i) ==
    /\ reqs[i].st = "proposed"
    /\ alive[r] /\ phase[r] = "up"
    /\ PeerOf(r) \in reqs[i].peers
    /\ i \notin committed[r] /\ i \notin inflight[r]
    /\ ~pg_exists(r, deserialize_pg_info(reqs[i].entry.extn).id)
    /\ inflight' = [inflight EXCEPT ![r] = @ \cup {i}]
    /\ last' = [NoOp EXCEPT !.op = "commit_check", !.r = r, !.req = i,
                            !.pg_id = reqs[i].pg_info.id]
    /\ UNCHANGED <<chunk_size, replica_state, alive, repl_devs, reqs, committed, replays,
                   phase, scanned, crashes, crash_image, lock_pc, replacing>>

\* the rest of the handler, from the chunk size check to the promise: the handlers of
\* other groups may have run since the existence check
commit_create(r, i) ==
    /\ i \in inflight[r]
    /\ create_pg_message_commit(r, i, "none",
                                commit_early_return_unlocked(r, read_entry(reqs[i].entry, "none")))

(* --------------------------- replace_member --------------------------- *)

\* the request _replace_member hands to the replication service
replica_member_info(m) == [id |-> m.id, name |-> m.name, priority |-> m.priority]

\* _replace_member that refuses every non-leader
replace_member_checks_leader_only(r, pg_id, is_leader, commit_quorum) ==
    IF ~pg_exists(r, pg_id) THEN "UNKNOWN_PG"
    ELSE IF ~is_leader THEN "NOT_LEADER"
    ELSE "pending"

\* the checks of _replace_member under the shared _pg_lock: the error it returns
\* at once, "pending" when it goes on to the replication service
replace_member_checks(r, pg_id, is_leader, commit_quorum) ==
    IF ~pg_exists(r, pg_id) THEN "UNKNOWN_PG"
    ELSE IF ~is_leader /\ commit_quorum = 0 THEN "NOT_LEADER"
    ELSE "pending"

\* a continuation that reports every error of the service as UNKNOWN
replace_member_result_unknown(v) == IF v # "OK" THEN "UNKNOWN" ELSE Unit

\* the continuation of hs_repl_service().replace_member(...)
replace_member_result(v) == IF v # "OK" THEN toPgError(v) ELSE Unit

\* _replace_member(pg_id, old_member_id, new_member, commit_quorum); is_leader is
\* what repl_dev.is_leader() answers, v the result of the replication service
replace_member(r, pg_id, old_member_id, new_member, commit_quorum, is_leader, v) ==
    LET chk == replace_member_checks(r, pg_id, is_leader, commit_quorum)
        sent == IF chk = "pending"
                THEN <<[group_id |-> pg_map[r][pg_id].repl_dev,
                        out_replica |-> [id |-> old_member_id],
                        in_replica |-> replica_member_info(new_member),
                        commit_quorum |-> commit_quorum]>>
                ELSE <<>>
    IN  /\ alive[r] /\ phase[r] = "up"
        /\ chk # "pending" => v = "OK"
        /\ last' = [NoOp EXCEPT !.op = "replace_member", !.r = r, !.pg_id = pg_id,
                                !.fault = v,
                                !.ret = IF chk = "pending" THEN replace_member_result(v)
                                        ELSE chk,
                                !.aux = [commit_quorum |-> commit_quorum,
                                         is_leader |-> is_leader, sent |-> sent]]
        /\ UNCHANGED <<chunk_size, replica_state, alive, repl_devs, reqs, committed, replays,
                       recovery_state>>

(* ------------------------ on_pg_replace_member ------------------------ *)

\* the members of a replication group, as the replication service has them
GroupPeers(g) == UNION {d.peers : d \in {x \in repl_devs : x.group_id = g}}

\* the first PG of _pg_map (in key order) whose repl_dev has the group id; 0 if none
pg_of_group(r, group_id) ==
    LET held == {p \in DOMAIN pg_map[r] : pg_map[r][p].repl_dev = group_id}
    IN  IF held = {} THEN 0 ELSE CHOOSE p \in held : \A q \in held : p <= q

\* members.erase(PGMember(member_out.id)); members.emplace(PGMember(member_in...)):
\* members are ordered by id, emplace does nothing when the id is present
replace_in_set(members, out_id, member_in) ==
    LET kept == {m \in members : m.id # out_id}
    IN  IF \E m \in kept : m.id = member_in.id THEN kept ELSE kept \cup {member_in}

\* what sb_members[num_members] = ... leaves in the chunk array that follows the
\* member array: the id of the member written there is the first field of the slot
overflow_chunk_ids(sb_chunk_ids, members, num_members) ==
    [k \in DOMAIN sb_chunk_ids |->
        IF k = 1 THEN SetOrder(members)[num_members + 1].id ELSE sb_chunk_ids[k]]

\* on_pg_replace_member(group_id, member_out, member_in) on replica r, for a
\* replacement committed on the group of request i
on_pg_replace_member(r, i, out_id, member_in) ==
    LET group_id == reqs[i].group
        pg_id == pg_of_group(r, group_id)
        pg == pg_map[r][pg_id]
        members == replace_in_set(pg.pg_info.members, out_id, member_in)
        sb == [pg.pg_sb EXCEPT !.pg_members = write_sb_members(@, members)]
        lastc == [NoOp EXCEPT !.op = "replace_commit", !.r = r, !.req = i, !.pg_id = pg_id,
                              !.aux = [out |-> out_id, in |-> member_in]]
    IN  /\ reqs[i].st = "proposed" /\ i \in committed[r]
        /\ alive[r] /\ phase[r] = "up"
        /\ PeerOf(r) \in GroupPeers(group_id)
        /\ repl_devs' = {IF d.group_id = group_id
                         THEN [d EXCEPT !.peers = (@ \ {out_id}) \cup {member_in.id}]
                         ELSE d : d \in repl_devs}
        /\ replacing' = [replacing EXCEPT ![r] = {c \in @ : c.req # i}]
        /\ UNCHANGED <<chunk_size, pg_chunks, index_table_pg_map, index_service, reqs,
                       committed, replays, phase, scanned, crashes, crash_image, lock_pc,
                       inflight>>
        /\ IF pg_id = 0
           THEN \* no PG of this group: LOGE
                /\ last' = [lastc EXCEPT !.ret = "failed"]
                /\ UNCHANGED <<pg_map, meta_blks, alive>>
           ELSE IF Cardinality(members) > pg.pg_sb.num_members
           THEN \* the member loop writes past the member array of the superblock:
                \* the process dies, or the write lands on the chunk array behind it
                \/ /\ alive' = [alive EXCEPT ![r] = FALSE]
                   /\ last' = [lastc EXCEPT !.ret = "abort"]
                   /\ UNCHANGED <<pg_map, meta_blks>>
                \/ LET over == [sb EXCEPT !.chunk_ids = overflow_chunk_ids(@, members,
                                                                          pg.pg_sb.num_members)]
                   IN  /\ pg_map' = [pg_map EXCEPT ![r][pg_id].pg_info.members = members,
                                                   ![r][pg_id].pg_sb = over]
                       /\ meta_blks' = [meta_blks EXCEPT ![r] = sb_write(@, over)]
                       /\ last' = [lastc EXCEPT !.ret = "done"]
                       /\ UNCHANGED alive
           ELSE /\ pg_map' = [pg_map EXCEPT ![r][pg_id].pg_info.members = members,
                                            ![r][pg_id].pg_sb = sb]
                /\ meta_blks' = [meta_blks EXCEPT ![r] = sb_write(@, sb)]
                /\ last' = [lastc EXCEPT !.ret = "done"]
                /\ UNCHANGED alive

\* the replication service commits the replacement of a member of the group by a
\* peer that is not one
replace_member_committed(r, i, out_id, member_in) ==
    /\ out_id \in GroupPeers(reqs[i].group)
    /\ member_in.id \notin GroupPeers(reqs[i].group)
    /\ on_pg_replace_member(r, i, out_id, member_in)

\* on_pg_replace_member up to members.erase(PGMember(member_out.id)), under the
\* shared _pg_lock: other holders of the shared lock may run before the emplace
replace_erase(r, i, out_id, member_in) ==
    LET group_id == reqs[i].group
        pg_id == pg_of_group(r, group_id)
        before == pg_map[r][pg_id].pg_info.members
    IN  /\ reqs[i].st = "proposed" /\ i \in committed[r]
        /\ alive[r] /\ phase[r] = "up"
        /\ PeerOf(r) \in GroupPeers(group_id)
        /\ out_id \in GroupPeers(group_id) /\ member_in.id \notin GroupPeers(group_id)
        /\ pg_id # 0
        /\ replacing[r] = {}
        /\ pg_map' = [pg_map EXCEPT ![r][pg_id].pg_info.members =
                                        {m \in before : m.id # out_id}]
        /\ replacing' = [replacing EXCEPT ![r] =
                            {[req |-> i, out |-> out_id, in |-> member_in, before |-> before]}]
        /\ last' = [NoOp EXCEPT !.op = "replace_erase", !.r = r, !.req = i, !.pg_id = pg_id]
        /\ UNCHANGED <<chunk_size, pg_chunks, index_table_pg_map, index_service, meta_blks,
                       alive, repl_devs, reqs, committed, replays, phase, scanned, crashes,
                       crash_image, lock_pc, inflight>>

\* the rest of on_pg_replace_member: the emplace, the member loop and the write of
\* the superblock
replace_emplace(r) ==
    \E c \in replacing[r] : on_pg_replace_member(r, c.req, c.out, c.in)

(* ------------------------- superblock copies -------------------------- *)

\* a pg_info_superblk whose fields have not been assigned: the copy constructor
\* initialises no member before it assigns
uninit_superblk(fill) ==
    [id |-> fill, num_members |-> fill, num_chunks |-> fill, replica_set_uuid |-> fill,
     pg_size |-> fill, index_table_uuid |-> fill, blob_sequence_num |-> fill,
     active_blob_count |-> fill, tombstone_blob_count |-> fill,
     total_occupied_blk_count |-> fill, pg_members |-> <<>>, chunk_ids |-> <<>>]

\* pg_info_superblk::operator=(rhs): the fields it assigns and the two arrays it
\* copies; every other field of the left side keeps what it held
pg_info_superblk_assign(lhs, rhs) ==
    [lhs EXCEPT !.id = rhs.id,
                !.num_members = rhs.num_members,
                !.num_chunks = rhs.num_chunks,
                !.pg_size = rhs.pg_size,
                !.replica_set_uuid = rhs.replica_set_uuid,
                !.index_table_uuid = rhs.index_table_uuid,
                !.blob_sequence_num = rhs.blob_sequence_num,
                !.pg_members = rhs.pg_members,
                !.chunk_ids = rhs.chunk_ids]

\* pg_info_superblk(rhs) { *this = rhs; } applied to a persisted superblock of r
pg_info_superblk_copy(r, rhs, fill) ==
    /\ alive[r] /\ phase[r] = "up"
    /\ rhs \in meta_blks[r]
    /\ last' = [NoOp EXCEPT !.op = "sb_copy", !.r = r, !.pg_id = rhs.id,
                            !.aux = [rhs |-> rhs,
                                     copy |-> pg_info_superblk_assign(uninit_superblk(fill), rhs)]]
    /\ UNCHANGED <<chunk_size, replica_state, alive, repl_devs, reqs, committed, replays,
                   recovery_state>>

(* ------------------------------ recovery ------------------------------ *)

\* the process of replica r stops and starts again: what it held in memory is
\* gone, the superblocks, the index tables and the replication groups remain.
\* No create_pg call of r is in flight.
restart(r) ==
    /\ crashes < MaxCrashes
    /\ phase[r] = "up"
    /\ \A i \in DOMAIN reqs :
          (reqs[i].st # "failed" /\ reqs[i].proposer = r) =>
              (reqs[i].st = "proposed" /\ i \in committed[r])
    /\ crashes' = crashes + 1
    /\ crash_image' = [crash_image EXCEPT ![r] = [pgs |-> pg_map[r], chunks |-> pg_chunks[r]]]
    /\ pg_map' = [pg_map EXCEPT ![r] = <<>>]
    /\ index_table_pg_map' = [index_table_pg_map EXCEPT ![r] = <<>>]
    /\ pg_chunks' = [pg_chunks EXCEPT ![r] = <<>>]
    /\ alive' = [alive EXCEPT ![r] = TRUE]
    /\ phase' = [phase EXCEPT ![r] = "index"]
    /\ scanned' = [scanned EXCEPT ![r] = {}]
    /\ last' = [NoOp EXCEPT !.op = "restart", !.r = r]
    /\ UNCHANGED <<chunk_size, index_service, meta_blks, repl_devs, reqs, committed, replays,
                   thread_state>>

\* recover_index_table(sb): the table is recorded under its uuid, no PG bound yet
recover_index_table(map, index_table) ==
    IF uuid_to_string(index_table) \in DOMAIN map THEN map
    ELSE index_map_put(map, uuid_to_string(index_table), 0, index_table)

\* BlobIndexServiceCallbacks::on_index_table_found(sb)
on_index_table_found(r, index_table) ==
    /\ phase[r] = "index" /\ alive[r]
    /\ index_table \in index_service[r]
    /\ uuid_to_string(index_table) \notin DOMAIN index_table_pg_map[r]
    /\ index_table_pg_map' = [index_table_pg_map EXCEPT ![r] = recover_index_table(@, index_table)]
    /\ last' = [NoOp EXCEPT !.op = "index_found", !.r = r, !.aux = index_table]
    /\ UNCHANGED <<chunk_size, pg_chunks, pg_map, index_service, meta_blks, alive, repl_devs,
                   reqs, committed, replays, recovery_state>>

\* the index service is done; the meta service starts to scan the PG superblocks.
\* An index service that lost a table is done without having handed it back.
index_recovery_done(r) ==
    /\ phase[r] = "index" /\ alive[r]
    /\ phase' = [phase EXCEPT ![r] = "meta"]
    /\ last' = [NoOp EXCEPT !.op = "index_done", !.r = r]
    /\ UNCHANGED <<chunk_size, replica_state, alive, repl_devs, reqs, committed, replays,
                   scanned, crashes, crash_image, thread_state>>

\* hs_repl_service().get_repl_dev(group_id): the group, or an error (0)
get_repl_dev(group_id, opens) ==
    IF opens /\ group_id \in {d.group_id : d \in repl_devs} THEN group_id ELSE 0

\* recover_pg_chunks(pg_id, chunks): whether the selector could take the chunks
recover_pg_chunks_ok(r, pg_id, p_chunk_ids) ==
    /\ pg_id \notin DOMAIN pg_chunks[r]
    /\ Range(p_chunk_ids) \subseteq UNION {FreeChunks(r, d) : d \in Devs}

\* a pg_info_from_sb that leaves replica_set_uuid as PGInfo(id) made it
pg_info_from_sb_no_uuid(sb, uninit) ==
    [id |-> sb.id, size |-> sb.pg_size, chunk_size |-> uninit,
     replica_set_uuid |-> 0, members |-> read_sb_members(sb)]

\* HS_PG::pg_info_from_sb(sb): chunk_size is not assigned
pg_info_from_sb(sb, uninit) ==
    [id |-> sb.id, size |-> sb.pg_size, chunk_size |-> uninit,
     replica_set_uuid |-> sb.replica_set_uuid, members |-> read_sb_members(sb)]

\* HS_PG::HS_PG(sb, rdev): the PG rebuilt from its superblock
HS_PG_recovered(sb, rdev, uninit) ==
    [pg_info |-> pg_info_from_sb(sb, uninit), repl_dev |-> rdev, index_table |-> 0,
     pg_sb |-> sb,
     durable_entities |-> [blob_sequence_num |-> sb.blob_sequence_num,
                           active_blob_count |-> sb.active_blob_count,
                           tombstone_blob_count |-> sb.tombstone_blob_count,
                           total_occupied_blk_count |-> sb.total_occupied_blk_count]]

\* on_pg_meta_blk_found(buf, cookie) for the superblock pg_sb; opens says whether
\* the replication service can open the group
on_pg_meta_blk_found(r, pg_sb, opens, uninit) ==
    LET v == get_repl_dev(pg_sb.replica_set_uuid, opens)
        pg_id == pg_sb.id
        uuid_str == uuid_to_string(pg_sb.index_table_uuid)
        hs_pg == HS_PG_recovered(pg_sb, v, uninit)
        lastc == [NoOp EXCEPT !.op = "meta_blk_found", !.r = r, !.pg_id = pg_id,
                              !.aux = pg_sb.index_table_uuid]
    IN  /\ phase[r] = "meta" /\ alive[r]
        /\ pg_sb \in meta_blks[r]
        /\ pg_sb.index_table_uuid \notin scanned[r]
        /\ scanned' = [scanned EXCEPT ![r] = @ \cup {pg_sb.index_table_uuid}]
        /\ UNCHANGED <<chunk_size, index_service, meta_blks, repl_devs, reqs, committed,
                       replays, phase, crashes, crash_image, thread_state>>
        /\ IF v = 0
           THEN \* LOGE, return: the PG is not recovered
                /\ last' = [lastc EXCEPT !.ret = "no_repl_dev"]
                /\ UNCHANGED <<pg_chunks, pg_map, index_table_pg_map, alive>>
           ELSE IF ~recover_pg_chunks_ok(r, pg_id, pg_sb.chunk_ids)
           THEN \* RELEASE_ASSERT(set_pg_chunks_res)
                /\ alive' = [alive EXCEPT ![r] = FALSE]
                /\ last' = [lastc EXCEPT !.ret = "abort_recover_pg_chunks"]
                /\ UNCHANGED <<pg_chunks, pg_map, index_table_pg_map>>
           ELSE /\ pg_chunks' = [pg_chunks EXCEPT ![r] = pg_id :> pg_sb.chunk_ids @@ @]
                /\ IF \/ uuid_str \notin DOMAIN index_table_pg_map[r]
                      \/ hs_pg.pg_info.replica_set_uuid # hs_pg.repl_dev
                   THEN \* RELEASE_ASSERT: IndexTable should be recovered before PG,
                        \* or the assertion of add_pg_to_map
                        /\ alive' = [alive EXCEPT ![r] = FALSE]
                        /\ last' = [lastc EXCEPT !.ret =
                              IF uuid_str \notin DOMAIN index_table_pg_map[r]
                              THEN "abort_no_index_table" ELSE "abort_add_pg_to_map"]
                        /\ UNCHANGED <<pg_map, index_table_pg_map>>
                   ELSE LET it == index_table_pg_map[r][uuid_str]
                        IN  /\ index_table_pg_map' =
                                 [index_table_pg_map EXCEPT ![r][uuid_str].pg_id = pg_id]
                            /\ pg_map' = [pg_map EXCEPT ![r] =
                                   try_emplace(@, pg_id,
                                               [hs_pg EXCEPT !.index_table = it.index_table])]
                            /\ last' = [lastc EXCEPT !.ret = "recovered"]
                            /\ UNCHANGED alive

\* on_pg_meta_blk_recover_completed(success): every superblock was scanned, the
\* chunk selector rebuilds its free lists from the chunks no PG holds
on_pg_meta_blk_recover_completed(r) ==
    /\ phase[r] = "meta" /\ alive[r]
    /\ \A b \in meta_blks[r] : b.index_table_uuid \in scanned[r]
    /\ phase' = [phase EXCEPT ![r] = "up"]
    /\ last' = [NoOp EXCEPT !.op = "recover_completed", !.r = r]
    /\ UNCHANGED <<chunk_size, replica_state, alive, repl_devs, reqs, committed, replays,
                   scanned, crashes, crash_image, thread_state>>

(* -------------------------------- stats ------------------------------- *)

\* a PGStats object as its constructor leaves it, and one a caller used before
FreshStats == [id |-> 0, replica_set_uuid |-> 0, num_members |-> 0, members |-> <<>>,
               num_active_objects |-> 0, num_tombstone_objects |-> 0]

UsedStats == [FreshStats EXCEPT !.id = 9, !.num_members = 1, !.members = <<<<9, NameA, 7, 7>>>>]

\* get_replication_status(): empty on a follower, the peers' progress on the leader
ReplicationStatuses ==
    {<<>>,
     <<[id_ |-> 2, replication_idx_ |-> 5, last_succ_resp_us_ |-> 6],
       [id_ |-> 1, replication_idx_ |-> 3, last_succ_resp_us_ |-> 4],
       [id_ |-> 2, replication_idx_ |-> 8, last_succ_resp_us_ |-> 8]>>}

\* the first entry of the replication status for the peer; zeros when there is none
status_of(replication_status, id) ==
    LET at == {k \in DOMAIN replication_status : replication_status[k].id_ = id}
    IN  IF at = {} THEN [id_ |-> id, replication_idx_ |-> 0, last_succ_resp_us_ |-> 0]
        ELSE replication_status[CHOOSE k \in at : \A j \in at : k <= j]

\* the member tuples the loop over pg_info_.members appends
member_tuples(members, replication_status) ==
    [k \in 1..Cardinality(members) |->
        LET m == SetOrder(members)[k]
            st == status_of(replication_status, m.id)
        IN  <<m.id, m.name, st.replication_idx_, st.last_succ_resp_us_>>]

\* a _get_stats that reports only the members the replication status knows
get_stats_known_members(r, id, stats, replication_status) ==
    IF id \notin DOMAIN pg_map[r] THEN [ret |-> FALSE, stats |-> stats]
    ELSE LET hs_pg == pg_map[r][id]
             known == {m \in hs_pg.pg_info.members :
                         \E k \in DOMAIN replication_status : replication_status[k].id_ = m.id}
         IN  [ret |-> TRUE,
              stats |-> [stats EXCEPT
                 !.id = hs_pg.pg_info.id,
                 !.replica_set_uuid = hs_pg.pg_info.replica_set_uuid,
                 !.num_members = Cardinality(hs_pg.pg_info.members),
                 !.num_active_objects = hs_pg.durable_entities.active_blob_count,
                 !.num_tombstone_objects = hs_pg.durable_entities.tombstone_blob_count,
                 !.members = @ \o member_tuples(known, replication_status)]]

\* _get_stats(id, stats) under the shared _pg_lock: what it returns and the
\* stats object after the call
get_stats(r, id, stats, replication_status) ==
    IF id \notin DOMAIN pg_map[r] THEN [ret |-> FALSE, stats |-> stats]
    ELSE LET hs_pg == pg_map[r][id]
         IN  [ret |-> TRUE,
              stats |-> [stats EXCEPT
                 !.id = hs_pg.pg_info.id,
                 !.replica_set_uuid = hs_pg.pg_info.replica_set_uuid,
                 !.num_members = Cardinality(hs_pg.pg_info.members),
                 !.num_active_objects = hs_pg.durable_entities.active_blob_count,
                 !.num_tombstone_objects = hs_pg.durable_entities.tombstone_blob_count,
                 !.members = @ \o member_tuples(hs_pg.pg_info.members, replication_status)]]

\* the keys of _pg_map in iteration order
pg_map_keys(r) ==
    LET S == DOMAIN pg_map[r]
    IN  CHOOSE s \in [1..Cardinality(S) -> S] :
            Range(s) = S /\ \A i, j \in 1..Cardinality(S) : i < j => s[i] < s[j]

\* _get_pg_ids(pg_ids): push_back of every key under the shared _pg_lock
get_pg_ids(r, pg_ids) == pg_ids \o pg_map_keys(r)

\* a get_pg_stats call on replica r
get_pg_stats(r, id, stats, replication_status) ==
    LET res == get_stats(r, id, stats, replication_status)
    IN  /\ alive[r] /\ phase[r] = "up"
        /\ last' = [NoOp EXCEPT !.op = "get_stats", !.r = r, !.pg_id = id,
                                !.ret = IF res.ret THEN "true" ELSE "false",
                                !.aux = [stats_in |-> stats, stats |-> res.stats,
                                         replication_status |-> replication_status]]
        /\ UNCHANGED <<chunk_size, replica_state, alive, repl_devs, reqs, committed, replays,
                       recovery_state>>

\* a list_pg_ids call on replica r
list_pg_ids(r, pg_ids) ==
    /\ alive[r] /\ phase[r] = "up"
    /\ last' = [NoOp EXCEPT !.op = "get_pg_ids", !.r = r,
                            !.aux = [pg_ids_in |-> pg_ids, pg_ids |-> get_pg_ids(r, pg_ids)]]
    /\ UNCHANGED <<chunk_size, replica_state, alive, repl_devs, reqs, committed, replays,
                   recovery_state>>

(* -------------------------------- locks ------------------------------- *)

\* the handlers that take _pg_lock or index_lock_, by the path they take
LockOps == {"create_pg", "commit_exists", "commit_create", "replace_member",
            "on_pg_replace_member", "on_pg_meta_blk_found", "get_stats", "get_pg_ids"}

Acquire(lock, mode) == [lock |-> lock, mode |-> mode]
Release(lock) == [lock |-> lock, mode |-> "release"]

\* a commit handler that takes _pg_lock for check and insertion and index_lock_ inside
LockPath_pg_lock_first(op) ==
    IF op = "commit_create"
    THEN <<Acquire("_pg_lock", "exclusive"), Acquire("index_lock_", "exclusive"),
           Release("index_lock_"), Release("_pg_lock")>>
    ELSE IF op = "on_pg_meta_blk_found"
    THEN <<Acquire("index_lock_", "exclusive"), Acquire("_pg_lock", "exclusive"),
           Release("_pg_lock"), Release("index_lock_")>>
    ELSE <<Acquire("_pg_lock", "shared"), Release("_pg_lock")>>

\* the lock operations of each handler, in program order: std::shared_lock(_pg_lock)
\* for the lookups, std::scoped_lock(index_lock_) held to the end of the handler
\* with add_pg_to_map's std::scoped_lock(_pg_lock) inside it
LockPath(op) ==
    IF op = "commit_create"
    THEN <<Acquire("_pg_lock", "shared"), Release("_pg_lock"),
           Acquire("index_lock_", "exclusive"), Acquire("_pg_lock", "exclusive"),
           Release("_pg_lock"), Release("index_lock_")>>
    ELSE IF op = "on_pg_meta_blk_found"
    THEN <<Acquire("index_lock_", "exclusive"), Acquire("_pg_lock", "exclusive"),
           Release("_pg_lock"), Release("index_lock_")>>
    ELSE <<Acquire("_pg_lock", "shared"), Release("_pg_lock")>>

\* how thread t holds the lock after the first k operations of its path: "none",
\* "shared" or "exclusive"
HeldAt(t, lock, k) ==
    LET path == LockPath(lock_pc[t].op)
        on == {j \in 1..k : path[j].lock = lock}
    IN  IF lock_pc[t].op = "idle" \/ on = {} THEN "none"
        ELSE LET j == CHOOSE x \in on : \A y \in on : y <= x
             IN  IF path[j].mode = "release" THEN "none" ELSE path[j].mode

Held(t, lock) == HeldAt(t, lock, lock_pc[t].at)

\* the lock operation thread t is about to do
NextLockOp(t) == LockPath(lock_pc[t].op)[lock_pc[t].at + 1]

\* std::shared_mutex: shared with no exclusive holder, exclusive with no holder
\* at all; a thread that holds the mutex and locks it again waits for itself
CanLock(t, e) ==
    IF e.mode = "release" THEN TRUE
    ELSE IF e.mode = "shared"
    THEN \A u \in Threads : Held(u, e.lock) # "exclusive" /\ (u = t => Held(u, e.lock) = "none")
    ELSE \A u \in Threads : Held(u, e.lock) = "none"

\* thread t enters a handler
lock_begin(t, op) ==
    /\ lock_pc[t].op = "idle"
    /\ lock_pc[t].n < MaxLockOps
    /\ lock_pc' = [lock_pc EXCEPT ![t] = [op |-> op, at |-> 0, n |-> @.n + 1]]
    /\ last' = [NoOp EXCEPT !.op = "lock_begin", !.aux = <<t, op>>]
    /\ UNCHANGED <<chunk_size, replica_state, alive, repl_devs, reqs, committed, replays,
                   phase, scanned, crashes, crash_image, inflight, replacing>>

\* thread t does the next lock operation of its handler, and leaves the handler
\* after the last one
lock_step(t) ==
    /\ lock_pc[t].op # "idle"
    /\ CanLock(t, NextLockOp(t))
    /\ lock_pc' = [lock_pc EXCEPT ![t] =
                      IF @.at + 1 = Len(LockPath(@.op))
                      THEN [Idle EXCEPT !.n = lock_pc[t].n]
                      ELSE [@ EXCEPT !.at = @ + 1]]
    /\ last' = [NoOp EXCEPT !.op = "lock_step", !.aux = <<t, NextLockOp(t)>>]
    /\ UNCHANGED <<chunk_size, replica_state, alive, repl_devs, reqs, committed, replays,
                   phase, scanned, crashes, crash_image, inflight, replacing>>

(* --------------------------- specification ---------------------------- *)

Next ==
    \/ \E r \in Replicas, pg_id \in PgIds, size \in PgSizes, members \in MemberSets :
          create_pg(r, pg_id, size, members)
    \/ \E i \in DOMAIN reqs, e \in ReplServiceErrors \ {"OK"} : create_repl_dev_failed(i, e)
    \/ \E i \in DOMAIN reqs : do_create_pg(i)
    \/ \E r \in Appliers, i \in DOMAIN reqs, fault \in Faults :
          on_create_pg_message_commit(r, i, fault)

Spec == Init /\ [][Next]_vars

\* the calls of the PG manager on one replica, and what the replication service
\* answers them
NextCalls ==
    \/ \E pg_id \in PgIds, members \in MemberSets : create_pg("r1", pg_id, 5, members)
    \/ \E i \in DOMAIN reqs, e \in ReplaceResults \ {"OK"} : create_repl_dev_failed(i, e)
    \/ \E i \in DOMAIN reqs : do_create_pg(i)
    \/ \E i \in DOMAIN reqs : on_create_pg_message_commit("r1", i, "none")
    \/ \E pg_id \in PgIds, commit_quorum \in {0, 1}, is_leader \in BOOLEAN,
          v \in ReplaceResults :
          replace_member("r1", pg_id, 3, member_D, commit_quorum, is_leader, v)

SpecCalls == Init /\ [][NextCalls]_vars

\* the life of the PGs of one replica: creation, membership change, restart
NextLife ==
    \/ \E pg_id \in PgIds, members \in MemberSets : create_pg("r1", pg_id, 5, members)
    \/ \E i \in DOMAIN reqs : do_create_pg(i)
    \/ \E i \in DOMAIN reqs : on_create_pg_message_commit("r1", i, "none")
    \/ \E i \in DOMAIN reqs, out_id \in {2, 3, 4}, member_in \in Members :
          replace_member_committed("r1", i, out_id, member_in)

SpecLife == Init /\ [][NextLife]_vars

\* creation, membership changes, restarts and the recovery of one replica
NextRecovery ==
    \/ \E pg_id \in PgIds, size \in SmallPgSizes, members \in MemberSets :
          create_pg("r1", pg_id, size, members)
    \/ \E i \in DOMAIN reqs : do_create_pg(i)
    \/ \E i \in DOMAIN reqs : on_create_pg_message_commit("r1", i, "none")
    \/ \E i \in DOMAIN reqs : replace_member_committed("r1", i, 2, member_D)
    \/ restart("r1")
    \/ \E index_table \in index_service["r1"] : on_index_table_found("r1", index_table)
    \/ index_recovery_done("r1")
    \/ \E pg_sb \in meta_blks["r1"], opens \in BOOLEAN, uninit \in UninitChunkSizes :
          on_pg_meta_blk_found("r1", pg_sb, opens, uninit)
    \/ on_pg_meta_blk_recover_completed("r1")

\* one leader proposes, both replicas apply the committed entries
NextTwo ==
    \/ \E pg_id \in PgIds, size \in PgSizes, members \in MemberSets :
          create_pg("r1", pg_id, size, members)
    \/ \E i \in DOMAIN reqs : do_create_pg(i)
    \/ \E r \in Replicas, i \in DOMAIN reqs : on_create_pg_message_commit(r, i, "none")

SpecTwo == Init /\ [][NextTwo]_vars

\* both replicas formatted with the same chunk size
InitSameChunkSize == Init /\ chunk_size["r2"] = chunk_size["r1"]

\* the stats calls of one replica between its commits
NextStats ==
    \/ \E pg_id \in PgIds, size \in SmallPgSizes, members \in MemberSets :
          create_pg("r1", pg_id, size, members)
    \/ \E i \in DOMAIN reqs : do_create_pg(i)
    \/ \E i \in DOMAIN reqs : on_create_pg_message_commit("r1", i, "none")
    \/ \E i \in DOMAIN reqs : replace_member_committed("r1", i, 2, member_D)
    \/ \E id \in PgIds, stats \in {FreshStats, UsedStats},
          replication_status \in ReplicationStatuses :
          get_pg_stats("r1", id, stats, replication_status)
    \/ \E pg_ids \in {<<>>, <<9>>} : list_pg_ids("r1", pg_ids)

SpecStats == InitSameChunkSize /\ [][NextStats]_vars

\* the threads of one replica and the locks they take
NextLocks ==
    \/ \E t \in Threads, op \in LockOps : lock_begin(t, op)
    \/ \E t \in Threads : lock_step(t)

\* a thread that can take its next lock does so
SpecLocks == Init /\ [][NextLocks]_vars /\ \A t \in Threads : WF_vars(lock_step(t))

SpecRecovery == InitSameChunkSize /\ [][NextRecovery]_vars

\* replace-member commits with any member_out and member_in: member_out may be no
\* member of the PG, member_in may already be one
AnyReplacements == {<<4, member_D>>, <<2, PGMember(3, NameLong, 2)>>}
NextReplaceAny ==
    \/ \E pg_id \in PgIds, size \in SmallPgSizes, members \in MemberSets :
          create_pg("r1", pg_id, size, members)
    \/ \E i \in DOMAIN reqs : do_create_pg(i)
    \/ \E i \in DOMAIN reqs : on_create_pg_message_commit("r1", i, "none")
    \/ \E i \in DOMAIN reqs, change \in AnyReplacements :
          on_pg_replace_member("r1", i, change[1], change[2])

SpecReplaceAny == InitSameChunkSize /\ [][NextReplaceAny]_vars

\* the commit handlers of the groups of one replica run on threads of their own:
\* between the existence check of one and its insertion the others may run
NextRace ==
    \/ \E pg_id \in PgIds, size \in SmallPgSizes, members \in MemberSets :
          create_pg("r1", pg_id, size, members)
    \/ \E i \in DOMAIN reqs : do_create_pg(i)
    \/ \E i \in DOMAIN reqs : commit_check("r1", i)
    \/ \E i \in DOMAIN reqs : commit_create("r1", i)

SpecRace == Init /\ [][NextRace]_vars

\* the superblock of a PG from its creation over a restart, and copies made of it
NextSuperblk ==
    \/ \E pg_id \in PgIds, size \in SmallPgSizes, members \in MemberSets :
          create_pg("r1", pg_id, size, members)
    \/ \E i \in DOMAIN reqs : do_create_pg(i)
    \/ \E i \in DOMAIN reqs : on_create_pg_message_commit("r1", i, "none")
    \/ restart("r1")
    \/ \E index_table \in index_service["r1"] : on_index_table_found("r1", index_table)
    \/ index_recovery_done("r1")
    \/ \E pg_sb \in meta_blks["r1"], uninit \in UninitChunkSizes :
          on_pg_meta_blk_found("r1", pg_sb, TRUE, uninit)
    \/ on_pg_meta_blk_recover_completed("r1")
    \/ \E rhs \in meta_blks["r1"], fill \in UninitBytes :
          pg_info_superblk_copy("r1", rhs, fill)

SpecSuperblk == InitSameChunkSize /\ [][NextSuperblk]_vars

\* get_pg_stats calls while a replace-member commit holds the shared _pg_lock too
NextStatsRace ==
    \/ \E pg_id \in PgIds, size \in SmallPgSizes, members \in MemberSets :
          create_pg("r1", pg_id, size, members)
    \/ \E i \in DOMAIN reqs : do_create_pg(i)
    \/ \E i \in DOMAIN reqs : on_create_pg_message_commit("r1", i, "none")
    \/ \E i \in DOMAIN reqs : replace_erase("r1", i, 2, member_D)
    \/ replace_emplace("r1")
    \/ \E id \in PgIds, replication_status \in ReplicationStatuses :
          get_pg_stats("r1", id, FreshStats, replication_status)

SpecStatsRace == InitSameChunkSize /\ [][NextStatsRace]_vars

(* ============================== claims ================================ *)

\* the state one replica's HSHomeObject keeps for PGs, and what it persisted
ReplicaState(r) ==
    <<pg_chunks[r], pg_map[r], index_table_pg_map[r], index_service[r], meta_blks[r]>>

\* the step is a run of the commit handler on replica r
CommitOn(r) == last'.op = "commit" /\ last'.r = r

\* the step is a create_pg call on replica r
CreatePgOn(r) == last'.op = "create_pg" /\ last'.r = r

\* index tables registered for pg_id, superblocks persisted for pg_id
IndexTablesOf(map, pg_id) == {u \in DOMAIN map : map[u].pg_id = pg_id}
SuperblksOf(blks, pg_id) == {b \in blks : b.id = pg_id}

\* the request's entry as the replica reads it in the step, and whether the handler's
\* header check or payload CRC check rejects it
EntryRead(i, fault) == read_entry(reqs[i].entry, fault)
CrcRejected(i, fault) ==
    \/ corrupted(EntryRead(i, fault).header)
    \/ crc32_ieee(EntryRead(i, fault).extn) # EntryRead(i, fault).header.payload_crc

\* replica r holds the request's context: it proposed it and has not committed it
HoldsCtx(r, i) == reqs[i].proposer = r /\ i \notin committed[r]

\* C1: PG idempotence.  A commit of an intact CREATE_PG entry for a pg_id P
\* already in the replica's PG map succeeds, changes nothing on the replica (PG
\* map, uuid -> index-table map, chunk reservations, superblocks) and resolves
\* the proposer's result with success; after any successful commit for P the
\* replica holds exactly one PG for P: one map entry, one registered index
\* table, one chunk reservation, one superblock
C1_Idempotent ==
    [][\A r \in Replicas :
        (CommitOn(r) /\ ~CrcRejected(last'.req, last'.fault)) =>
            LET i == last'.req
                P == reqs[i].pg_info.id
            IN  /\ P \in DOMAIN pg_map[r] =>
                      /\ last'.ret = Unit
                      /\ ReplicaState(r)' = ReplicaState(r)
                      /\ alive' = alive /\ repl_devs' = repl_devs
                      /\ HoldsCtx(r, i) => reqs'[i].promise = Unit
                      /\ ~HoldsCtx(r, i) => reqs' = reqs
                /\ last'.ret = Unit =>
                      /\ P \in DOMAIN pg_map'[r]
                      /\ Cardinality(IndexTablesOf(index_table_pg_map'[r], P)) = 1
                      /\ Cardinality(SuperblksOf(meta_blks'[r], P)) = 1
                      /\ P \in DOMAIN pg_chunks'[r]]_vars

\* C1 witness: the proposer of a second CREATE_PG entry for a pg_id got success
\* from its commit while the PG in the map is the one the first entry created
C1_Witness ==
    /\ last.op = "commit" /\ last.fault = "none" /\ last.ctx
    /\ reqs[last.req].promise = Unit
    /\ last.pg_id \in DOMAIN pg_map[last.r]
    /\ pg_map[last.r][last.pg_id].repl_dev # reqs[last.req].group

\* C2 as stated: create_pg with size > most_avail_num_chunks x chunk_size fails
\* with NO_SPACE_LEFT and leaves everything unchanged
C2_Original ==
    [][\A r \in Replicas :
        (CreatePgOn(r) /\ last'.size > most_avail_num_chunks(r) * get_chunk_size(r)) =>
            /\ last'.ret = "NO_SPACE_LEFT"
            /\ reqs' = reqs /\ repl_devs' = repl_devs
            /\ ReplicaState(r)' = ReplicaState(r)]_vars

\* C2 amended: create_pg for a pg_id not present locally with
\* floor(size / chunk_size) > most_avail_num_chunks fails with NO_SPACE_LEFT before
\* anything is proposed: no request reaches create_repl_dev, no group is created,
\* no entry is submitted and the replica's state is unchanged
C2_CapacityPreCheck ==
    [][\A r \in Replicas :
        (/\ CreatePgOn(r)
         /\ last'.pg_id \notin DOMAIN pg_map[r]
         /\ last'.size \div get_chunk_size(r) > most_avail_num_chunks(r)) =>
            /\ last'.ret = "NO_SPACE_LEFT"
            /\ reqs' = reqs /\ repl_devs' = repl_devs
            /\ ReplicaState(r)' = ReplicaState(r)]_vars

\* C2 witness: a create_pg was refused with NO_SPACE_LEFT although the devices
\* together hold enough free chunks
C2_Witness ==
    /\ last.op = "create_pg" /\ last.ret = "NO_SPACE_LEFT"
    /\ last.size \div get_chunk_size(last.r)
          <= Cardinality(UNION {FreeChunks(last.r, d) : d \in Devs})

\* C3: for a pg_id not present locally create_pg returns INVALID_ARG iff size = 0,
\* otherwise NO_SPACE_LEFT iff floor(size / chunk_size) > most_avail_num_chunks,
\* and otherwise awaits create_repl_dev with a replica_set_uuid no request or
\* group has and with the local chunk size stamped into pg_info
C3_PreChecks ==
    [][\A r \in Replicas :
        (CreatePgOn(r) /\ last'.pg_id \notin DOMAIN pg_map[r]) =>
            LET size == last'.size
                full == size \div get_chunk_size(r) > most_avail_num_chunks(r)
                n == Len(reqs')
            IN  /\ last'.ret = "INVALID_ARG" <=> size = 0
                /\ last'.ret = "NO_SPACE_LEFT" <=> (size # 0 /\ full)
                /\ (size # 0 /\ ~full) =>
                      /\ n = Len(reqs) + 1
                      /\ SubSeq(reqs', 1, n - 1) = reqs
                      /\ reqs'[n].st = "create_repl_dev"
                      /\ reqs'[n].proposer = r
                      /\ reqs'[n].pg_info.id = last'.pg_id
                      /\ reqs'[n].pg_info.size = size
                      /\ reqs'[n].pg_info.chunk_size = get_chunk_size(r)
                      /\ \A j \in 1..(n - 1) : reqs[j].st # "failed" =>
                            reqs[j].pg_info.replica_set_uuid
                               # reqs'[n].pg_info.replica_set_uuid
                      /\ \A g \in repl_devs :
                            g.group_id # reqs'[n].pg_info.replica_set_uuid]_vars

\* C3 witness: a create_pg with a size that is no multiple of the chunk size
\* passed both checks and awaits create_repl_dev
C3_Witness ==
    /\ last.op = "create_pg" /\ last.ret = "pending"
    /\ reqs[last.req].st = "create_repl_dev"
    /\ last.size % get_chunk_size(last.r) # 0
    /\ reqs[last.req].pg_info.chunk_size = get_chunk_size(last.r)

\* C4: create_pg for a pg_id already in the local PG map returns success at once,
\* whatever the size, and changes nothing: no request, no group, no entry
C4_ExistingPg ==
    [][\A r \in Replicas :
        (CreatePgOn(r) /\ last'.pg_id \in DOMAIN pg_map[r]) =>
            /\ last'.ret = Unit
            /\ reqs' = reqs /\ repl_devs' = repl_devs
            /\ committed' = committed /\ alive' = alive
            /\ ReplicaState(r)' = ReplicaState(r)]_vars

\* C4 witness: create_pg with size 0 returned success for an existing PG
C4_Witness ==
    /\ last.op = "create_pg" /\ last.ret = Unit /\ last.size = 0
    /\ last.pg_id \in DOMAIN pg_map[last.r]

\* C5: chunk-size homogeneity.  A commit of an intact CREATE_PG entry whose
\* chunk_size differs from the replica's, for a pg_id the replica does not hold,
\* inserts no PG, reserves no chunks, registers no index table, persists nothing,
\* and the result it has for the proposer is UNKNOWN (set only on the proposer)
C5_ChunkSizeMismatch ==
    [][\A r \in Replicas :
        (/\ CommitOn(r) /\ ~CrcRejected(last'.req, last'.fault)
         /\ reqs[last'.req].pg_info.id \notin DOMAIN pg_map[r]
         /\ reqs[last'.req].pg_info.chunk_size # get_chunk_size(r)) =>
            LET i == last'.req
                P == reqs[i].pg_info.id
            IN  /\ ReplicaState(r)' = ReplicaState(r)
                /\ P \notin DOMAIN pg_map'[r]
                /\ P \notin DOMAIN pg_chunks'[r]
                /\ IndexTablesOf(index_table_pg_map'[r], P) = {}
                /\ last'.ret = "UNKNOWN"
                /\ HoldsCtx(r, i) => reqs'[i].promise = "UNKNOWN"
                /\ ~HoldsCtx(r, i) => reqs' = reqs]_vars

\* C5 witness: a replica rejected an entry stamped with another chunk size
C5_Witness ==
    /\ last.op = "commit" /\ last.ret = "UNKNOWN" /\ last.fault = "none"
    /\ reqs[last.req].pg_info.chunk_size # get_chunk_size(last.r)
    /\ last.pg_id \notin DOMAIN pg_map[last.r]
    /\ last.pg_id \notin DOMAIN pg_chunks[last.r]

\* C6: a CREATE_PG entry with a corrupted header or a payload whose CRC differs
\* from header.payload_crc: the handler returns, the replica keeps running and
\* its PG map, index map, chunk reservations and superblocks are unchanged;
\* CRC_MISMATCH is set on the proposer's pending result and nowhere else
C6_CrcMismatch ==
    [][\A r \in Replicas :
        (CommitOn(r) /\ CrcRejected(last'.req, last'.fault)) =>
            LET i == last'.req
            IN  /\ alive'[r]
                /\ ReplicaState(r)' = ReplicaState(r)
                /\ last'.ret = "CRC_MISMATCH"
                /\ HoldsCtx(r, i) =>
                      /\ reqs'[i].promise = "CRC_MISMATCH"
                      /\ reqs'[i].nset = reqs[i].nset + 1
                      /\ \A j \in DOMAIN reqs : j # i => reqs'[j] = reqs[j]
                /\ ~HoldsCtx(r, i) => reqs' = reqs]_vars

\* C6 witness: a follower dropped an entry with a damaged payload and signalled
\* nothing, the proposer's result is still pending
C6_Witness ==
    /\ last.op = "commit" /\ last.fault = "payload" /\ last.ret = "CRC_MISMATCH"
    /\ reqs[last.req].proposer # last.r
    /\ reqs[last.req].promise = "unset"
    /\ alive[last.r]

\* C7 as stated: a replica that detects a CRC mismatch in a CREATE_PG entry
\* stops at a fatal assertion
C7_Original ==
    (last.op = "commit" /\ last.ret = "CRC_MISMATCH") => ~alive[last.r]

\* C7 amended: a CRC mismatch detected while committing a CREATE_PG entry is not
\* fatal; the replica that detects it drops the entry and keeps running
C7_CrcMismatchNotFatal ==
    (last.op = "commit" /\ CrcRejected(last.req, last.fault)) =>
        (alive[last.r] /\ last.ret = "CRC_MISMATCH")

\* C7 witness: a proposer that got CRC_MISMATCH for one entry went on to create
\* a PG from a later entry
C7_Witness ==
    \E i \in DOMAIN reqs :
        /\ reqs[i].promise = "CRC_MISMATCH"
        /\ last.op = "commit" /\ last.r = reqs[i].proposer /\ last.req # i
        /\ last.ret = Unit /\ last.fault = "none"
        /\ last.pg_id \in DOMAIN pg_map[last.r]
        /\ pg_map[last.r][last.pg_id].repl_dev = reqs[last.req].group
        /\ alive[last.r]

\* the step is a commit on r that created the PG of its entry
CreatedOn(r) ==
    /\ CommitOn(r) /\ last'.ret = Unit
    /\ reqs[last'.req].pg_info.id \notin DOMAIN pg_map[r]

\* slot k of a superblock's member array holds member m: its id, its priority
\* and the bytes of its name, as far as the name field reaches
SlotHolds(slot, m) ==
    /\ slot.id = m.id
    /\ slot.priority = m.priority
    /\ \A j \in 1..Min(Len(m.name), max_name_len) : slot.name[j] = m.name[j]

\* C8: after a successful CREATE_PG commit for a new pg_id the PG map holds the
\* pg_id with the proposed pg_info, the uuid -> index-table map holds the new
\* table's uuid mapped to {pg_id, table}, the PG's index_table_ is that table,
\* and one superblock was persisted that holds id, pg_size, replica_set_uuid,
\* index_table_uuid, the member array and the chunk selector's chunk array
C8_CreatedPg ==
    [][\A r \in Replicas :
        CreatedOn(r) =>
            LET i == last'.req
                info == reqs[i].pg_info
                P == info.id
                pg == pg_map'[r][P]
                table == pg.index_table
                key == uuid_to_string(table)
                sb == pg.pg_sb
            IN  /\ P \in DOMAIN pg_map'[r]
                /\ \A Q \in DOMAIN pg_map[r] : pg_map'[r][Q] = pg_map[r][Q]
                /\ pg.pg_info = info
                /\ pg.repl_dev = reqs[i].group
                /\ table \notin index_service[r] /\ table \in index_service'[r]
                /\ key \notin DOMAIN index_table_pg_map[r]
                /\ key \in DOMAIN index_table_pg_map'[r]
                /\ index_table_pg_map'[r][key] = [pg_id |-> P, index_table |-> table]
                /\ IndexTablesOf(index_table_pg_map'[r], P) = {key}
                /\ meta_blks'[r] = meta_blks[r] \cup {sb}
                /\ sb \notin meta_blks[r]
                /\ sb.id = P
                /\ sb.pg_size = info.size
                /\ sb.replica_set_uuid = info.replica_set_uuid
                /\ sb.index_table_uuid = table
                /\ sb.num_members = Cardinality(info.members)
                /\ Len(sb.pg_members) = sb.num_members
                /\ \A m \in info.members :
                      \E k \in 1..sb.num_members : SlotHolds(sb.pg_members[k], m)
                /\ sb.chunk_ids = pg_chunks'[r][P]]_vars

\* C8 witness: a follower created a PG with three members from a committed entry
C8_Witness ==
    /\ last.op = "commit" /\ last.ret = Unit /\ ~last.ctx
    /\ reqs[last.req].proposer # last.r
    /\ last.pg_id \in DOMAIN pg_map[last.r]
    /\ pg_map[last.r][last.pg_id].repl_dev = reqs[last.req].group
    /\ pg_map[last.r][last.pg_id].pg_sb \in meta_blks[last.r]
    /\ pg_map[last.r][last.pg_id].pg_sb.num_members = 3

\* C9: when select_chunks_for_pg cannot reserve the chunks at commit, the
\* handler's result for the proposer is NO_SPACE_LEFT and the replica ends with
\* no PG, no index table, no superblock and no reserved chunks for the pg_id
C9_NoSpaceAtCommit ==
    [][\A r \in Replicas :
        (/\ CommitOn(r) /\ ~CrcRejected(last'.req, last'.fault)
         /\ reqs[last'.req].pg_info.id \notin DOMAIN pg_map[r]
         /\ reqs[last'.req].pg_info.chunk_size = get_chunk_size(r)
         /\ select_chunks_for_pg(r, reqs[last'.req].pg_info.size) = {}) =>
            LET i == last'.req
                P == reqs[i].pg_info.id
            IN  /\ last'.ret = "NO_SPACE_LEFT"
                /\ HoldsCtx(r, i) => reqs'[i].promise = "NO_SPACE_LEFT"
                /\ ~HoldsCtx(r, i) => reqs' = reqs
                /\ P \notin DOMAIN pg_map'[r]
                /\ P \notin DOMAIN pg_chunks'[r]
                /\ IndexTablesOf(index_table_pg_map'[r], P) = {}
                /\ SuperblksOf(meta_blks'[r], P) = {}
                /\ ReplicaState(r)' = ReplicaState(r)]_vars

\* C9 witness: a proposer whose create_pg passed the capacity pre-check got
\* NO_SPACE_LEFT from the commit, another PG having taken the chunks meanwhile
C9_Witness ==
    /\ last.op = "commit" /\ last.ret = "NO_SPACE_LEFT" /\ last.ctx
    /\ reqs[last.req].promise = "NO_SPACE_LEFT"
    /\ last.pg_id \notin DOMAIN pg_map[last.r]
    /\ last.pg_id \notin DOMAIN pg_chunks[last.r]
    /\ DOMAIN pg_map[last.r] # {}

\* C10: the superblock persisted by a CREATE_PG commit with size S has
\* num_chunks = floor(S / chunk_size), and its chunk array entry v is the
\* physical chunk the chunk selector assigned to virtual chunk v, a chunk that
\* was free before the commit
C10_ChunkArray ==
    [][\A r \in Replicas :
        CreatedOn(r) =>
            LET info == reqs[last'.req].pg_info
                P == info.id
                n == info.size \div get_chunk_size(r)
            IN  \E sb \in meta_blks'[r] \ meta_blks[r] :
                  /\ sb.id = P
                  /\ sb.num_chunks = n
                  /\ DOMAIN sb.chunk_ids = 1..n
                  /\ DOMAIN pg_chunks'[r][P] = 1..n
                  /\ \A v \in 1..n :
                        /\ sb.chunk_ids[v] = pg_chunks'[r][P][v]
                        /\ sb.chunk_ids[v] \in UNION {FreeChunks(r, d) : d \in Devs}
                  /\ \A v, w \in 1..n : v # w => sb.chunk_ids[v] # sb.chunk_ids[w]]_vars

\* C10 witness: a PG of size 5 on chunk size 2 was created with two chunks, its
\* virtual chunk 1 on a higher physical chunk than its virtual chunk 2
C10_Witness ==
    /\ last.op = "commit" /\ last.ret = Unit /\ last.size = 5
    /\ get_chunk_size(last.r) = 2
    /\ \E sb \in meta_blks[last.r] :
          /\ sb.id = last.pg_id /\ sb.num_chunks = 2
          /\ sb.replica_set_uuid = reqs[last.req].group
          /\ sb.chunk_ids[1] > sb.chunk_ids[2]
          /\ sb.chunk_ids = pg_chunks[last.r][last.pg_id]

\* the step is a replace_member call on replica r
ReplaceMemberOn(r) == last'.op = "replace_member" /\ last'.r = r

\* everything but the record of the last call is unchanged
NothingChanged ==
    UNCHANGED <<chunk_size, replica_state, alive, repl_devs, reqs, committed, replays,
                recovery_state>>

\* C14 as stated: replace_member returns UNKNOWN_PG iff the pg_id is not in the PG
\* map, and NOT_LEADER without contacting the replication service iff the PG is
\* known, the replica is not leader and commit_quorum = 0
C14_Original ==
    [][\A r \in Replicas :
        ReplaceMemberOn(r) =>
            /\ last'.ret = "UNKNOWN_PG" <=> last'.pg_id \notin DOMAIN pg_map[r]
            /\ (last'.ret = "NOT_LEADER" /\ last'.aux.sent = <<>>) <=>
                  (/\ last'.pg_id \in DOMAIN pg_map[r]
                   /\ ~last'.aux.is_leader /\ last'.aux.commit_quorum = 0)]_vars

\* C14 amended: replace_member returns UNKNOWN_PG without contacting the
\* replication service iff the pg_id is not in the PG map, and NOT_LEADER without
\* contacting it iff the PG is known, the replica is not leader and
\* commit_quorum = 0; in every other case one request goes to the replication
\* service with the PG's group_id, and the caller gets success or the mapped
\* error of the service (which may itself be UNKNOWN_PG or NOT_LEADER).
\* Neither early error changes any state.
C14_ReplaceMemberChecks ==
    [][\A r \in Replicas :
        ReplaceMemberOn(r) =>
            LET P == last'.pg_id
                known == P \in DOMAIN pg_map[r]
                refused == known /\ ~last'.aux.is_leader /\ last'.aux.commit_quorum = 0
                sent == last'.aux.sent
            IN  /\ (last'.ret = "UNKNOWN_PG" /\ sent = <<>>) <=> ~known
                /\ (last'.ret = "NOT_LEADER" /\ sent = <<>>) <=> refused
                /\ (known /\ ~refused) =>
                      /\ Len(sent) = 1
                      /\ sent[1].group_id = pg_map[r][P].repl_dev
                      /\ sent[1].commit_quorum = last'.aux.commit_quorum
                      /\ last'.fault = "OK" => last'.ret = Unit
                      /\ last'.fault # "OK" => last'.ret \in PGErrors
                /\ NothingChanged]_vars

\* C14 witness: a replica that is not leader forwarded a request with
\* commit_quorum 1 to the replication service, which accepted it
C14_Witness ==
    /\ last.op = "replace_member" /\ last.ret = Unit
    /\ ~last.aux.is_leader /\ last.aux.commit_quorum = 1
    /\ Len(last.aux.sent) = 1
    /\ last.aux.sent[1].group_id = pg_map[last.r][last.pg_id].repl_dev

\* C16: toPgError maps NOT_LEADER, TIMEOUT, NO_SPACE_LEFT, DRIVE_WRITE_ERROR and
\* RETRY_REQUEST to the PG error of the same name, SERVER_NOT_FOUND to UNKNOWN_PG,
\* CANNOT_REMOVE_LEADER to UNKNOWN_PEER and every other code to INVALID_ARG or
\* UNKNOWN; the result is a PG error and never CRC_MISMATCH
C16_ErrorTable ==
    (last.op = "create_repl_dev") =>
        LET e == last.fault
            g == last.ret
        IN  /\ e \in {"NOT_LEADER", "TIMEOUT", "NO_SPACE_LEFT", "DRIVE_WRITE_ERROR",
                      "RETRY_REQUEST"} => g = e
            /\ e = "SERVER_NOT_FOUND" => g = "UNKNOWN_PG"
            /\ e = "CANNOT_REMOVE_LEADER" => g = "UNKNOWN_PEER"
            /\ e \notin {"NOT_LEADER", "TIMEOUT", "NO_SPACE_LEFT", "DRIVE_WRITE_ERROR",
                         "RETRY_REQUEST", "SERVER_NOT_FOUND", "CANNOT_REMOVE_LEADER"}
                  => g \in {"INVALID_ARG", "UNKNOWN"}
            /\ g \in PGErrors /\ g # "CRC_MISMATCH"

\* C16 witness: create_repl_dev failed with CANNOT_REMOVE_LEADER and create_pg
\* returned UNKNOWN_PEER
C16_Witness ==
    /\ last.op = "create_repl_dev" /\ last.fault = "CANNOT_REMOVE_LEADER"
    /\ last.ret = "UNKNOWN_PEER"
    /\ reqs[last.req].st = "failed"

\* the last call went to the replication service, which failed it with error e
ServiceFailed(e) ==
    /\ \/ last.op = "create_repl_dev"
       \/ last.op = "replace_member" /\ last.aux.sent # <<>>
    /\ last.fault = e

\* C17 as stated: TIMEOUT, RETRY_REQUEST and CONFIG_CHANGING from create_repl_dev or
\* replace_member reach the caller as an error of that same kind
C17_Original ==
    \A e \in {"TIMEOUT", "RETRY_REQUEST", "CONFIG_CHANGING"} :
        ServiceFailed(e) => last.ret = e

\* C17 amended: TIMEOUT and RETRY_REQUEST from create_repl_dev or replace_member
\* reach the caller as the PG error of the same kind; CONFIG_CHANGING has no PG
\* error of its own and reaches the caller as INVALID_ARG
C17_TransientErrors ==
    /\ \A e \in {"TIMEOUT", "RETRY_REQUEST"} : ServiceFailed(e) => last.ret = e
    /\ ServiceFailed("CONFIG_CHANGING") => last.ret = "INVALID_ARG"

\* C17 witness: a forwarded replace_member that timed out returned TIMEOUT
C17_Witness ==
    /\ last.op = "replace_member" /\ last.aux.sent # <<>>
    /\ last.fault = "TIMEOUT" /\ last.ret = "TIMEOUT"

\* the step is a replace-member commit on r that found the PG of the group
ReplacedOn(r) == last'.op = "replace_commit" /\ last'.r = r /\ last'.ret = "done"

\* C15: after on_pg_replace_member(group_id, out, in) on a replica holding the PG of
\* the group, the PG's member set is (previous members minus out) plus in, and the
\* member array of the persisted superblock reads back as that same set: the same
\* ids, names and priorities
C15_ReplaceMemberCommit ==
    [][\A r \in Replicas :
        ReplacedOn(r) =>
            LET P == last'.pg_id
                before == pg_map[r][P].pg_info.members
                after == pg_map'[r][P].pg_info.members
                sb == pg_map'[r][P].pg_sb
            IN  /\ after = {m \in before : m.id # last'.aux.out} \cup {last'.aux.in}
                /\ sb \in meta_blks'[r]
                /\ SuperblksOf(meta_blks'[r], P) = {sb}
                /\ read_sb_members(sb) = after]_vars

\* replica r has just rebuilt the PG last.pg_id from its superblock
RecoveredOn(r) == last.op = "meta_blk_found" /\ last.r = r /\ last.ret = "recovered"

\* C11: in every reachable state, after any mix of CREATE_PG commits,
\* replace-member commits and superblock recovery, each PG in the PG map has
\* pg_info.replica_set_uuid equal to the group id of the repl_dev it holds and to
\* the replica_set_uuid of its superblock, and the assertion of add_pg_to_map
\* has not fired
C11_ReplicaSetUuid ==
    /\ last.ret # "abort_add_pg_to_map"
    /\ \A r \in Replicas : \A id \in DOMAIN pg_map[r] :
          LET pg == pg_map[r][id]
          IN  /\ pg.repl_dev \in {d.group_id : d \in repl_devs}
              /\ pg.pg_info.replica_set_uuid = pg.repl_dev
              /\ pg.pg_info.replica_set_uuid = pg.pg_sb.replica_set_uuid

\* a PG whose member was replaced is rebuilt from its superblock while another
\* PG is already in the map
C11_Witness ==
    /\ RecoveredOn("r1")
    /\ \E m \in pg_map["r1"][last.pg_id].pg_info.members : m.id = member_D.id
    /\ Cardinality(DOMAIN pg_map["r1"]) = 2

\* replica r holds the PG that the committed entry of request i created
HoldsPgOf(r, i) ==
    /\ reqs[i].st = "proposed"
    /\ reqs[i].pg_info.id \in DOMAIN pg_map[r]
    /\ pg_map[r][reqs[i].pg_info.id].repl_dev = reqs[i].group

\* the chunk list of the PG of request i on replica r, as the superblock holds it
ChunkListOf(r, i) == pg_map[r][reqs[i].pg_info.id].pg_sb.chunk_ids

\* C12 as stated: for one committed CREATE_PG entry the chunk list has the same
\* length and the same chunk id at every virtual index on every replica that
\* applied the commit
C12_Original ==
    \A i \in DOMAIN reqs : \A r, q \in Replicas :
        (HoldsPgOf(r, i) /\ HoldsPgOf(q, i)) => ChunkListOf(r, i) = ChunkListOf(q, i)

\* C12: for one committed CREATE_PG entry the chunk list has the same length,
\* floor(size / chunk_size), on every replica that applied the commit, in the
\* superblock and in the chunk selector; the chunk ids are each replica's own pick
C12_SameLength ==
    \A i \in DOMAIN reqs : \A r, q \in Replicas :
        (HoldsPgOf(r, i) /\ HoldsPgOf(q, i)) =>
            LET id == reqs[i].pg_info.id
                n == needed_num_chunks(reqs[i].pg_info.size, reqs[i].pg_info.chunk_size)
            IN  /\ Len(ChunkListOf(r, i)) = n
                /\ Len(ChunkListOf(q, i)) = n
                /\ pg_map[r][id].pg_sb.num_chunks = pg_map[q][id].pg_sb.num_chunks
                /\ Len(pg_chunks[r][id]) = Len(pg_chunks[q][id])
                /\ pg_chunks[r][id] = ChunkListOf(r, i)

\* both replicas applied the same entry and picked different chunks for index 1
C12_Witness ==
    \E i \in DOMAIN reqs :
        /\ HoldsPgOf("r1", i) /\ HoldsPgOf("r2", i)
        /\ Len(ChunkListOf("r1", i)) = 2
        /\ ChunkListOf("r1", i)[1] # ChunkListOf("r2", i)[1]

\* the PGs of replica r whose chunk list holds the chunk c
PgsHolding(r, c) == {p \in DOMAIN pg_chunks[r] : c \in Range(pg_chunks[r][p])}

\* C13: on one replica, after any sequence of CREATE_PG commits (successful or
\* failed) and superblock recoveries, no physical chunk id is in the chunk lists
\* of two different PGs, in the chunk selector or in the superblocks of the PG map
C13_ChunkInOnePg ==
    \A r \in Replicas :
        /\ \A c \in UNION {DevChunks(d) : d \in Devs} : Cardinality(PgsHolding(r, c)) <= 1
        /\ \A p, q \in DOMAIN pg_map[r] :
              p # q => Range(pg_map[r][p].pg_sb.chunk_ids) \cap
                       Range(pg_map[r][q].pg_sb.chunk_ids) = {}
        /\ \A p \in DOMAIN pg_map[r] :
              p \in DOMAIN pg_chunks[r] /\ pg_chunks[r][p] = pg_map[r][p].pg_sb.chunk_ids

\* two PGs hold chunks after the second of them was rebuilt from its superblock
C13_Witness ==
    /\ RecoveredOn("r1")
    /\ Cardinality(DOMAIN pg_map["r1"]) = 2
    /\ \A p \in DOMAIN pg_map["r1"] : Len(pg_chunks["r1"][p]) > 0

\* what C18 compares of a PG: its attributes, its index table, its counters
PgImage(pg, chunks) ==
    [id |-> pg.pg_info.id, size |-> pg.pg_info.size, chunk_size |-> pg.pg_info.chunk_size,
     replica_set_uuid |-> pg.pg_info.replica_set_uuid, members |-> pg.pg_info.members,
     index_table |-> pg.index_table, chunks |-> chunks,
     durable_entities |-> pg.durable_entities]

\* C18: starting from the image left by any sequence of CREATE_PG commits and
\* replace-member commits, recovery rebuilds each PG with the same id, size,
\* chunk_size, replica_set_uuid, member set, index-table binding, chunk list and
\* durable counters as before the crash
C18_RecoveryEquivalence ==
    \A r \in Replicas :
        RecoveredOn(r) =>
            /\ last.pg_id \in DOMAIN crash_image[r].pgs
            /\ PgImage(pg_map[r][last.pg_id], pg_chunks[r][last.pg_id]) =
               PgImage(crash_image[r].pgs[last.pg_id], crash_image[r].chunks[last.pg_id])

\* replica r restarted and its recovery ran to the end
RecoveryCompleted(r) == crashes > 0 /\ phase[r] = "up" /\ alive[r]

\* the PGs of replica r that own the entry k of the uuid -> index-table map
OwnersOf(r, k) ==
    {id \in DOMAIN pg_map[r] :
        /\ uuid_to_string(pg_map[r][id].pg_sb.index_table_uuid) = k
        /\ pg_map[r][id].index_table = index_table_pg_map[r][k].index_table
        /\ id = index_table_pg_map[r][k].pg_id}

\* C19: after recovery completes, every PG in the PG map is bound to exactly one
\* index table, and every entry of the uuid -> index-table map is owned by exactly
\* one PG of the map, whose superblock index_table_uuid is the entry's uuid and
\* whose id is the entry's pg_id
C19_OneIndexTablePerPg ==
    \A r \in Replicas :
        RecoveryCompleted(r) =>
            /\ \A id \in DOMAIN pg_map[r] :
                  Cardinality({k \in DOMAIN index_table_pg_map[r] :
                                  index_table_pg_map[r][k].index_table =
                                      pg_map[r][id].index_table}) = 1
            /\ \A k \in DOMAIN index_table_pg_map[r] : Cardinality(OwnersOf(r, k)) = 1

\* on_pg_meta_blk_found has just run on r for a superblock whose index table
\* was not in the map of r
ScannedWithoutIndexTable(r) ==
    /\ last'.op = "meta_blk_found" /\ last'.r = r
    /\ uuid_to_string(last'.aux) \notin DOMAIN index_table_pg_map[r]

\* C20: when on_pg_meta_blk_found runs for a superblock whose index_table_uuid is
\* absent from the uuid -> index-table map, it stops at a fatal assertion, and no
\* PG is ever in the PG map without an index table the index service handed back
C20_IndexTableBeforePg ==
    /\ [](\A r \in Replicas : \A id \in DOMAIN pg_map[r] :
            /\ pg_map[r][id].index_table \in index_service[r]
            /\ uuid_to_string(pg_map[r][id].index_table) \in DOMAIN index_table_pg_map[r])
    /\ [][\A r \in Replicas :
            ScannedWithoutIndexTable(r) =>
                /\ last'.ret \in {"abort_no_index_table", "abort_recover_pg_chunks"}
                /\ ~alive'[r]
                /\ pg_map'[r] = pg_map[r]]_vars

\* on_pg_meta_blk_recover_completed has just run on replica r
RecoverCompletedOn(r) == last.op = "recover_completed" /\ last.r = r

\* C21: recover_per_dev_chunk_heap runs only after every PG superblock was
\* processed, and by then the chunks of every PG superblock on disk are restored
\* to that PG, so that no chunk a persisted superblock lists is on a free list
C21_ChunksRestoredBeforeHeap ==
    \A r \in Replicas :
        RecoverCompletedOn(r) =>
            \A sb \in meta_blks[r] :
                /\ sb.index_table_uuid \in scanned[r]
                /\ sb.id \in DOMAIN pg_chunks[r]
                /\ pg_chunks[r][sb.id] = sb.chunk_ids
                /\ Range(sb.chunk_ids) \cap UNION {FreeChunks(r, d) : d \in Devs} = {}

\* a valid CREATE_PG entry is replayed on r, restarted, whose PG map holds the PG
ReplayOnRecovered(r) ==
    /\ CommitOn(r) /\ last'.fault = "none"
    /\ crashes > 0
    /\ last'.pg_id \in DOMAIN pg_map[r]

\* C22: after a PG was recovered from its superblock, replaying its CREATE_PG
\* entry through on_create_pg_message_commit is a no-op: no chunks are reserved,
\* no index table is created or registered, no superblock is written and the PG
\* map is unchanged
C22_ReplayAfterRecovery ==
    [][\A r \in Replicas :
          ReplayOnRecovered(r) =>
              /\ last'.ret = Unit
              /\ pg_chunks' = pg_chunks
              /\ index_service' = index_service
              /\ index_table_pg_map' = index_table_pg_map
              /\ meta_blks' = meta_blks
              /\ pg_map' = pg_map
              /\ alive' = alive]_vars

\* the entry of a PG rebuilt from its superblock (its chunk_size was not
\* restored) has just been replayed
C22_Witness ==
    /\ last.op = "commit" /\ last.r = "r1" /\ crashes > 0 /\ last.ret = Unit
    /\ last.pg_id \in DOMAIN pg_map["r1"]
    /\ last.pg_id \in DOMAIN crash_image["r1"].pgs
    /\ pg_map["r1"][last.pg_id].pg_info.chunk_size = 0

\* the future of request i is resolved in this step
Resolved(i) == reqs'[i].promise # reqs[i].promise \/ reqs'[i].nset # reqs[i].nset

\* C23: the future create_pg returned for a submitted CREATE_PG entry resolves
\* only when the entry's commit handler runs on the proposing node, once, with
\* exactly the outcome the handler recorded; when it resolves with success the
\* PG is in the local PG map and a superblock of it has been written
C23_FutureResolvesAtCommit ==
    [][\A i \in DOMAIN reqs :
          Resolved(i) =>
              LET r == reqs[i].proposer
              IN  /\ reqs[i].st = "proposed" /\ reqs[i].promise = "unset"
                  /\ CommitOn(r) /\ last'.req = i /\ last'.ctx
                  /\ reqs'[i].promise = last'.ret
                  /\ reqs'[i].nset = 1
                  /\ reqs'[i].promise = Unit =>
                        /\ reqs[i].pg_info.id \in DOMAIN pg_map'[r]
                        /\ SuperblksOf(meta_blks'[r], reqs[i].pg_info.id) # {}]_vars

\* the proposer's commit handler has just resolved the future with success
C23_Witness ==
    /\ last.op = "commit" /\ last.ctx /\ last.ret = Unit
    /\ reqs[last.req].promise = Unit
    /\ last.pg_id \in DOMAIN pg_map[last.r]

\* thread t holds its locks in the order the claim allows
LockOrder(t) ==
    LET e == NextLockOp(t)
    IN  (lock_pc[t].op # "idle" /\ e.mode # "release") =>
            /\ e.lock = "index_lock_" => Held(t, "_pg_lock") = "none"
            /\ Held(t, e.lock) = "none"

\* some thread inside a handler can go on
NotStuck ==
    (\E t \in Threads : lock_pc[t].op # "idle") =>
        \E t \in Threads : lock_pc[t].op # "idle" /\ CanLock(t, NextLockOp(t))

\* C24: no lock inversion and no deadlock: a thread takes index_lock_ only while
\* it does not hold _pg_lock, never locks a mutex it already holds, reads the PG
\* map under a shared and inserts under an exclusive _pg_lock that excludes every
\* other holder; threads inside handlers are never all blocked, and every handler
\* that was entered is left again
C24_LockDiscipline ==
    /\ [](\A t \in Threads : LockOrder(t))
    /\ [](\A t, u \in Threads :
            (t # u /\ Held(t, "_pg_lock") = "exclusive") => Held(u, "_pg_lock") = "none")
    /\ [](\A t \in Threads :
            Held(t, "_pg_lock") = "exclusive" =>
                lock_pc[t].op \in {"commit_create", "on_pg_meta_blk_found"})
    /\ []NotStuck
    /\ \A t \in Threads : (lock_pc[t].op # "idle") ~> (lock_pc[t].op = "idle")

\* one thread holds index_lock_ and waits for _pg_lock, which the other thread
\* holds shared
C24_Witness ==
    /\ lock_pc["t1"].op = "commit_create"
    /\ Held("t1", "index_lock_") = "exclusive" /\ Held("t1", "_pg_lock") = "none"
    /\ NextLockOp("t1") = Acquire("_pg_lock", "exclusive")
    /\ Held("t2", "_pg_lock") = "shared"

\* C25: member records round-trip through the superblock: after any sequence of
\* CREATE_PG and replace-member commits, pg_info_from_sb applied to the persisted
\* superblock of a PG yields members with the same id, name and priority as the
\* in-memory members (names of at most 32 bytes)
C25_MemberRoundTrip ==
    \A r \in Replicas : \A id \in DOMAIN pg_map[r] :
        LET pg == pg_map[r][id]
        IN  (\A m \in pg.pg_info.members : Len(m.name) <= max_name_len) =>
                /\ pg.pg_sb \in meta_blks[r]
                /\ \A uninit \in UninitChunkSizes :
                      pg_info_from_sb(pg.pg_sb, uninit).members = pg.pg_info.members

\* a get_pg_stats call has just returned on replica r
GetStatsOn(r) == last.op = "get_stats" /\ last.r = r

\* the tuples of the stats object that name the member
TuplesOf(stats, m) == {k \in DOMAIN stats.members : stats.members[k][1] = m.id}

\* C26 as stated: get_pg_stats returns false and leaves the stats object untouched
\* iff the pg_id is not in the PG map; for a known PG it reports num_members equal
\* to the size of the member set and exactly one member tuple per member, with
\* last_commit_lsn and last_succ_resp 0 for a member absent from the replication
\* status; list_pg_ids returns exactly the ids in the PG map, each once
C26_Original ==
    \A r \in Replicas :
        /\ GetStatsOn(r) =>
              LET stats == last.aux.stats
                  known == last.pg_id \in DOMAIN pg_map[r]
              IN  /\ last.ret = (IF known THEN "true" ELSE "false")
                  /\ ~known <=> stats = last.aux.stats_in
                  /\ known =>
                        LET members == pg_map[r][last.pg_id].pg_info.members
                        IN  /\ stats.num_members = Cardinality(members)
                            /\ Len(stats.members) = Cardinality(members)
                            /\ \A m \in members : Cardinality(TuplesOf(stats, m)) = 1
        /\ (last.op = "get_pg_ids" /\ last.r = r) =>
              /\ Range(last.aux.pg_ids) = DOMAIN pg_map[r]
              /\ Len(last.aux.pg_ids) = Cardinality(DOMAIN pg_map[r])

\* C26: get_pg_stats returns false and leaves the stats object untouched iff the
\* pg_id is not in the PG map; for a known PG it sets num_members to the size of
\* the member set and appends to stats.members exactly one tuple per member, in
\* member order, with the member's id and name, the values of its first entry in
\* the replication status, and 0 and 0 when it has none.  list_pg_ids appends to
\* the vector it is given exactly the ids in the PG map, each once
C26_StatsAppend ==
    \A r \in Replicas :
        /\ GetStatsOn(r) =>
              LET stats == last.aux.stats
                  before == last.aux.stats_in
                  status == last.aux.replication_status
                  known == last.pg_id \in DOMAIN pg_map[r]
              IN  /\ last.ret = (IF known THEN "true" ELSE "false")
                  /\ ~known <=> stats = before
                  /\ known =>
                        LET pg == pg_map[r][last.pg_id]
                            members == pg.pg_info.members
                            n == Len(before.members)
                            added == SubSeq(stats.members, n + 1, Len(stats.members))
                        IN  /\ stats.id = last.pg_id
                            /\ stats.replica_set_uuid = pg.pg_info.replica_set_uuid
                            /\ stats.num_members = Cardinality(members)
                            /\ SubSeq(stats.members, 1, n) = before.members
                            /\ Len(added) = Cardinality(members)
                            /\ \A m \in members :
                                  \E k \in DOMAIN added :
                                      /\ \A j \in DOMAIN added : added[j][1] = m.id <=> j = k
                                      /\ added[k][2] = m.name
                                      /\ (\A j \in DOMAIN status : status[j].id_ # m.id) =>
                                            added[k][3] = 0 /\ added[k][4] = 0
                                      /\ \A j \in DOMAIN status :
                                            (status[j].id_ = m.id /\
                                             \A i \in 1..(j - 1) : status[i].id_ # m.id) =>
                                                /\ added[k][3] = status[j].replication_idx_
                                                /\ added[k][4] = status[j].last_succ_resp_us_
        /\ (last.op = "get_pg_ids" /\ last.r = r) =>
              LET n == Len(last.aux.pg_ids_in)
                  added == SubSeq(last.aux.pg_ids, n + 1, Len(last.aux.pg_ids))
              IN  /\ SubSeq(last.aux.pg_ids, 1, n) = last.aux.pg_ids_in
                  /\ Range(added) = DOMAIN pg_map[r]
                  /\ Len(added) = Cardinality(DOMAIN pg_map[r])

\* get_pg_stats has just reported, on a follower, a PG whose member was replaced
C26_Witness ==
    /\ GetStatsOn("r1") /\ last.ret = "true"
    /\ last.aux.replication_status = <<>>
    /\ last.aux.stats_in = FreshStats
    /\ \E k \in DOMAIN last.aux.stats.members : last.aux.stats.members[k][1] = member_D.id

\* the step is a run of on_pg_replace_member on replica r
ReplaceCommitOn(r) == last'.op = "replace_commit" /\ last'.r = r

\* the fields of a superblock other than its member array
SbFrame(sb) ==
    <<sb.id, sb.num_members, sb.num_chunks, sb.replica_set_uuid, sb.pg_size,
      sb.index_table_uuid, sb.blob_sequence_num, sb.active_blob_count,
      sb.tombstone_blob_count, sb.total_occupied_blk_count, sb.chunk_ids>>

\* the parts of a PG other than its member set
PgFrame(pg) ==
    <<pg.pg_info.id, pg.pg_info.size, pg.pg_info.replica_set_uuid, pg.repl_dev,
      pg.index_table, pg.durable_entities, SbFrame(pg.pg_sb)>>

\* C27: on_pg_replace_member changes only the member set of the one PG whose repl_dev
\* group_id matches: that PG's id, size, replica_set_uuid, index_table_uuid, chunk
\* list (num_chunks and every chunk id of the superblock) and durable counters are
\* unchanged, every other PG and its superblock are unchanged, and when no PG matches
\* the group_id nothing changes and nothing is persisted
C27_ReplaceMemberFrame ==
    [][\A r \in Replicas :
        ReplaceCommitOn(r) =>
            LET P == last'.pg_id
            IN  /\ DOMAIN pg_map'[r] = DOMAIN pg_map[r]
                /\ pg_chunks'[r] = pg_chunks[r]
                /\ index_table_pg_map'[r] = index_table_pg_map[r]
                /\ index_service'[r] = index_service[r]
                /\ \A q \in DOMAIN pg_map[r] \ {P} : pg_map'[r][q] = pg_map[r][q]
                /\ P = 0 => pg_map'[r] = pg_map[r] /\ meta_blks'[r] = meta_blks[r]
                /\ P # 0 => /\ PgFrame(pg_map'[r][P]) = PgFrame(pg_map[r][P])
                            /\ meta_blks'[r] \ {pg_map'[r][P].pg_sb} =
                                  meta_blks[r] \ {pg_map[r][P].pg_sb}]_vars

\* C28: in every reachable state each PG's superblock has num_members = size of the
\* in-memory member set and num_chunks = length of its chunk list, also after
\* replace-member commits where member_out is no current member or member_in already
\* is one; the member array holds num_members slots and never extends into the chunk
\* array, which holds the PG's chunk list, and no commit ends the process
C28_SuperblockCounts ==
    \A r \in Replicas :
        /\ alive[r]
        /\ \A id \in DOMAIN pg_map[r] :
              LET pg == pg_map[r][id]
              IN  /\ pg.pg_sb.num_members = Cardinality(pg.pg_info.members)
                  /\ pg.pg_sb.num_chunks = Len(pg_chunks[r][id])
                  /\ Len(pg.pg_sb.pg_members) = pg.pg_sb.num_members
                  /\ Len(pg.pg_sb.chunk_ids) = pg.pg_sb.num_chunks
                  /\ pg.pg_sb.chunk_ids = pg_chunks[r][id]

\* C29: when the CREATE_PG entries of two groups for the same pg_id are committed
\* concurrently on one replica, the existence check and the insertion behave
\* atomically: one PG is in the map, one index table is registered for the pg_id, the
\* chunks reserved for the pg_id are those of the PG in the map, and the only
\* persisted superblock of the pg_id is that of the PG in the map
C29_AtomicCreate ==
    \A r \in Replicas : \A pg_id \in DOMAIN pg_map[r] :
        alive[r] =>
            /\ Cardinality(IndexTablesOf(index_table_pg_map[r], pg_id)) = 1
            /\ get_pg_chunks(pg_chunks[r], pg_id) = pg_map[r][pg_id].pg_sb.chunk_ids
            /\ SuperblksOf(meta_blks[r], pg_id) = {pg_map[r][pg_id].pg_sb}

\* the members a get_pg_stats call reported: the id and name of the tuples it appended
SeenMembers ==
    {<<last.aux.stats.members[k][1], last.aux.stats.members[k][2]>> :
        k \in (Len(last.aux.stats_in.members) + 1)..Len(last.aux.stats.members)}

\* the id and name of every member of the set
IdNames(members) == {<<m.id, m.name>> : m \in members}

\* C30: a get_pg_stats call running concurrently with on_pg_replace_member for the
\* same PG reports either the member set from before the replacement or the one
\* after it, never a set with member_out removed and member_in not yet added
C30_StatsSeeWholeReplacement ==
    \A r \in Replicas :
        (GetStatsOn(r) /\ last.ret = "true") =>
            \A c \in replacing[r] :
                pg_of_group(r, reqs[c.req].group) = last.pg_id =>
                    \/ SeenMembers = IdNames(c.before)
                    \/ SeenMembers = IdNames(replace_in_set(c.before, c.out, c.in))

\* C31: every run of on_create_pg_message_commit that returns on the proposer (hs_ctx
\* present and is_proposer) sets the proposer's promise exactly once, to the outcome
\* of the path taken (corrupted header, CRC mismatch, PG already exists, chunk-size
\* mismatch, chunk selection failure, success), and touches no other request; on a
\* non-proposer no promise is touched
C31_PromiseOncePerCommit ==
    [][\A r \in Replicas :
        (CommitOn(r) /\ alive'[r]) =>
            LET i == last'.req
            IN  /\ last'.ret \in {"CRC_MISMATCH", Unit, "UNKNOWN", "NO_SPACE_LEFT"}
                /\ \A j \in DOMAIN reqs \ {i} : reqs'[j] = reqs[j]
                /\ HoldsCtx(r, i) =>
                      /\ reqs'[i].nset = reqs[i].nset + 1
                      /\ reqs'[i].promise = last'.ret
                      /\ reqs'[i] = [reqs[i] EXCEPT !.promise = last'.ret, !.nset = @ + 1]
                /\ ~HoldsCtx(r, i) => reqs' = reqs]_vars

\* C31 witness: the proposer's handler rejected a corrupted entry and set the
\* promise, for the first and only time, to CRC_MISMATCH
C31_Witness ==
    /\ last.op = "commit" /\ last.ctx /\ last.fault = "header"
    /\ last.ret = "CRC_MISMATCH"
    /\ reqs[last.req].promise = "CRC_MISMATCH" /\ reqs[last.req].nset = 1

\* the step is the failure of create_repl_dev for a create_pg call of replica r
CreateReplDevFailedOn(r) == last'.op = "create_repl_dev" /\ last'.r = r

\* the create_pg call of request i ended with an error of the commit handler
CommitFailed(i) == reqs[i].st = "proposed" /\ reqs[i].promise \in PGErrors

\* C32: a create_pg call that ends with an error leaves no residue on the replica.
\* An error of the pre-checks or of create_repl_dev (mapped through toPgError, no
\* CREATE_PG entry proposed) changes neither the PG map, the uuid -> index-table map,
\* the chunk reservations, the superblocks nor the set of replication groups; after an
\* error of the commit handler the group created for the call is gone and the
\* replica holds no PG, index table or chunk reservation made for it
C32_NoResidueOnError ==
    /\ [][\A r \in Replicas :
            \/ CreatePgOn(r) /\ last'.ret \in PGErrors
            \/ CreateReplDevFailedOn(r)
            => /\ ReplicaState(r)' = ReplicaState(r)
               /\ repl_devs' = repl_devs
               /\ \A i \in DOMAIN reqs' : reqs'[i].st # "proposed" \/ reqs'[i] = reqs[i]]_vars
    /\ [](\A i \in DOMAIN reqs :
            CommitFailed(i) =>
                LET r == reqs[i].proposer
                    P == reqs[i].pg_info.id
                IN  /\ \A d \in repl_devs : d.group_id # reqs[i].group
                    /\ \A p \in DOMAIN pg_map[r] : pg_map[r][p].repl_dev # reqs[i].group
                    /\ P \notin DOMAIN pg_map[r] =>
                          /\ P \notin DOMAIN pg_chunks[r]
                          /\ IndexTablesOf(index_table_pg_map[r], P) = {})

\* the four durable counters of a superblock or of a PG's durable_entities
Counters(e) ==
    <<e.blob_sequence_num, e.active_blob_count, e.tombstone_blob_count,
      e.total_occupied_blk_count>>

\* C33: the superblock a CREATE_PG commit persists carries all four durable counters
\* (blob_sequence_num, active_blob_count, tombstone_blob_count,
\* total_occupied_blk_count) equal to 0 and equal to the in-memory counters, a PG
\* recovered from it after a crash has all counters 0, and a copy of a
\* pg_info_superblk (operator= / copy) carries the four counters of its source
C33_DurableCounters ==
    /\ \A r \in Replicas : \A id \in DOMAIN pg_map[r] :
          LET pg == pg_map[r][id]
          IN  /\ Counters(pg.pg_sb) = <<0, 0, 0, 0>>
              /\ Counters(pg.durable_entities) = Counters(pg.pg_sb)
              /\ \A b \in SuperblksOf(meta_blks[r], id) : Counters(b) = <<0, 0, 0, 0>>
    /\ last.op = "sb_copy" => Counters(last.aux.copy) = Counters(last.aux.rhs)

====
